---- MODULE Spec2Model ----
(***************************************************************************)
(* Model of experiment-7/app.py of RethinkAI: the streaming JSON decoder   *)
(* stream_to_dataframe, the record normalizer process_dataframe and the    *)
(* file cache loaders get_311_data / get_shots_fired_data.                 *)
(*                                                                         *)
(* Text is a sequence of one-character strings.  The rows of a table are   *)
(* a sequence; a row produced by the decoder is the canonical text of the  *)
(* JSON value it was parsed from.                                          *)
(***************************************************************************)
EXTENDS Integers, Sequences, FiniteSets, TLC

VARIABLES
    \* ---- stream_to_dataframe (one request) ----
    status_code,   \* response.status_code
    body,          \* the response body, as text
    pos,           \* number of characters of body already delivered as chunks
    json_data,     \* the io.StringIO the scan assembles
    buffer,        \* the scan buffer
    in_array,      \* the scan's in_array flag
    pc,            \* "request" | "stream" | "done"
    result,        \* what stream_to_dataframe returned or raised
    split,         \* history: a chunk ended between the two characters of a delimiter
    \* ---- process_dataframe (one call) ----
    df_in,         \* the table passed to process_dataframe
    loc_flag,      \* location_columns
    date_flag,     \* date_column
    df_out,        \* the table returned
    npc,           \* "call" | "returned"
    \* ---- cache loaders ----
    now,           \* time.time(), in minutes
    files,         \* cache file name -> [exists, mtime, data]
    last,          \* history: per loader, its last call and what it returned
    paired,        \* history: the two shots files on disk were written by one call
    \* ---- the map and summary callbacks ----
    df_311,        \* the module's 311 table (line 236)
    df_shots,      \* the module's shots-fired table (line 235)
    df_hom_shot_matched,  \* the module's matched-homicides table (line 235)
    cb,            \* history: the last callback, its inputs and what it returned
    \* ---- get_select_311_data (one call with event_ids) ----
    event_ids,     \* the list handed to compute_area_category_counts
    id_list,       \* event_ids.split(",")
    batch_i,       \* the loop variable i
    sent,          \* history: the batch_ids of every request issued, in order
    answers,       \* history: what each request got, in order
    all_dfs,       \* the tables of the batches that succeeded
    bpc,           \* "call" | "loop" | "returned" | "resolved"
    resolved,      \* what get_select_311_data / compute_area_category_counts returned
    \* ---- the chat callbacks ----
    chat_messages,        \* children of chat-messages
    chat_messages_right,  \* children of chat-messages-right
    refresh_clicks,       \* n_clicks of refresh-chat-btn
    chat_event,           \* history: the last chat callback and how it ended
    \* ---- the tabs ----
    tabs,          \* the five outputs of switch_tabs as the page holds them
    tab_clicks,    \* n_clicks of stats-tab and community-tab
    combined,      \* what handle_combined_chat_input returned last
    tab_event,     \* history: the last tab callback
    \* ---- two sessions running the loaders ----
    raised_in,     \* history: the call inside the loader that raised, or "none"
    sess,          \* per session: its loader and its position in it
    writing        \* the cache files a to_parquet is in the middle of writing

decVars == <<status_code, body, pos, json_data, buffer, in_array, pc, result, split>>
normVars == <<df_in, loc_flag, date_flag, df_out, npc>>
cacheVars == <<now, files, last, paired, raised_in>>
viewVars == <<df_311, df_shots, df_hom_shot_matched, cb>>
batchVars == <<event_ids, id_list, batch_i, sent, answers, all_dfs, bpc, resolved>>
chatVars == <<chat_messages, chat_messages_right, refresh_clicks, chat_event>>
tabVars == <<tabs, tab_clicks, combined, tab_event>>
concVars == <<sess, writing>>
restVars == <<chatVars, tabVars, concVars>>
appVars == <<viewVars, batchVars, restVars>>
vars == <<decVars, normVars, cacheVars, appVars>>

(***************************************************************************)
(* Bounds of the model                                                     *)
(***************************************************************************)
MaxLen == 5        \* longest arbitrary body text
MaxElems == 2      \* most elements of a well-framed body

(***************************************************************************)
(* Text helpers: Python str operations used by the scan                    *)
(***************************************************************************)
LF == "\n"
Whitespace == {" ", LF}
Digits == {"1", "2"}

OpenSeq == <<"[", LF>>      \* "[\n"
CommaSeq == <<",", LF>>     \* ",\n"
CloseSeq == <<LF, "]">>     \* "\n]"

\* s[i:] and s[:i] with Python's 0-based index i
From(s, i) == SubSeq(s, i + 1, Len(s))
Upto(s, i) == SubSeq(s, 1, i)

MatchAt(s, pat, i) ==
    /\ i + Len(pat) <= Len(s)
    /\ \A k \in 1..Len(pat) : s[i + k] = pat[k]

\* str.find: the 0-based index of the first occurrence, -1 when there is none
Find(s, pat) ==
    LET hits == {i \in 0..Len(s) : MatchAt(s, pat, i)}
    IN IF hits = {} THEN -1 ELSE CHOOSE i \in hits : \A j \in hits : i <= j

\* the "in" operator on strings
Contains(s, pat) == Find(s, pat) # -1

RECURSIVE RemoveAll(_, _)
\* str.replace(pat, ""): every non-overlapping occurrence, left to right
RemoveAll(s, pat) ==
    IF ~Contains(s, pat) THEN s
    ELSE LET i == Find(s, pat)
         IN Upto(s, i) \o RemoveAll(From(s, i + Len(pat)), pat)

RECURSIVE RStrip(_)
RStrip(s) ==
    IF Len(s) > 0 /\ s[Len(s)] \in Whitespace THEN RStrip(Upto(s, Len(s) - 1)) ELSE s

RECURSIVE LStrip(_)
LStrip(s) ==
    IF Len(s) > 0 /\ s[1] \in Whitespace THEN LStrip(From(s, 1)) ELSE s

Strip(s) == LStrip(RStrip(s))

EndsWith(s, c) == Len(s) > 0 /\ s[Len(s)] = c

(***************************************************************************)
(* The incremental scan of stream_to_dataframe                             *)
(***************************************************************************)
ScanInit == [json_data |-> <<>>, buffer |-> <<>>, in_array |-> FALSE]

\* "Handle the opening of the JSON array"
OpenArray(st) ==
    IF ~st.in_array /\ Contains(st.buffer, OpenSeq)
    THEN [json_data |-> st.json_data \o <<"[">>,
          buffer |-> RemoveAll(st.buffer, OpenSeq),
          in_array |-> TRUE]
    ELSE st

\* the loop written as an if: at most one element is taken per chunk
ExtractObjects_Once(st) ==
    IF ~st.in_array THEN st
    ELSE IF Contains(st.buffer, CommaSeq)
    THEN LET obj_end == Find(st.buffer, CommaSeq)
         IN [json_data |-> st.json_data \o Upto(st.buffer, obj_end) \o <<",">>,
             buffer |-> From(st.buffer, obj_end + 2),
             in_array |-> TRUE]
    ELSE IF Contains(st.buffer, CloseSeq)
    THEN LET obj_end == Find(st.buffer, CloseSeq)
             obj_text == Upto(st.buffer, obj_end)
         IN [json_data |-> st.json_data
                           \o (IF Strip(obj_text) # <<>> THEN obj_text ELSE <<>>)
                           \o <<"]">>,
             buffer |-> From(st.buffer, obj_end + 2),
             in_array |-> FALSE]
    ELSE st

RECURSIVE ExtractObjects(_)
\* "Process complete JSON objects": the while in_array loop
ExtractObjects(st) ==
    IF ~st.in_array THEN st
    ELSE IF Contains(st.buffer, CommaSeq)
    THEN LET obj_end == Find(st.buffer, CommaSeq)
             obj_text == Upto(st.buffer, obj_end)
         IN ExtractObjects([json_data |-> st.json_data \o obj_text \o <<",">>,
                            buffer |-> From(st.buffer, obj_end + 2),
                            in_array |-> TRUE])
    ELSE IF Contains(st.buffer, CloseSeq)
    THEN LET obj_end == Find(st.buffer, CloseSeq)
             obj_text == Upto(st.buffer, obj_end)
         IN [json_data |-> st.json_data
                           \o (IF Strip(obj_text) # <<>> THEN obj_text ELSE <<>>)
                           \o <<"]">>,
             buffer |-> From(st.buffer, obj_end + 2),
             in_array |-> FALSE]
    ELSE st

\* the body of the for loop, for one non-empty chunk
ProcessChunk(st, chunk) ==
    ExtractObjects(OpenArray([st EXCEPT !.buffer = st.buffer \o chunk]))

(***************************************************************************)
(* pd.read_json(..., orient="records"): pandas' JSON decoder on the grammar *)
(* value ::= digit+ | '[' [value (',' value)*] ']' with JSON whitespace.    *)
(* A parsed value is kept as its canonical text (whitespace removed).       *)
(***************************************************************************)
ExpectedValue == "Expected object or value"
ArrayValue1 == "Unexpected character found when decoding array value (1)"
ArrayValue2 == "Unexpected character found when decoding array value (2)"
TrailingData == "Trailing data"
NotAFrame == "DataFrame constructor not properly called!"

ParseFail(m) == [ok |-> FALSE, next |-> 0, val |-> <<>>, items |-> <<>>, isArray |-> FALSE, msg |-> m]
ParseOk(n, v, its, arr) == [ok |-> TRUE, next |-> n, val |-> v, items |-> its, isArray |-> arr, msg |-> ""]

RECURSIVE SkipWs(_, _)
SkipWs(s, i) == IF i <= Len(s) /\ s[i] \in Whitespace THEN SkipWs(s, i + 1) ELSE i

RECURSIVE NumberEnd(_, _)
NumberEnd(s, i) == IF i <= Len(s) /\ s[i] \in Digits THEN NumberEnd(s, i + 1) ELSE i

RECURSIVE JoinItems(_)
JoinItems(its) ==
    IF its = <<>> THEN <<>>
    ELSE IF Len(its) = 1 THEN its[1]
    ELSE its[1] \o <<",">> \o JoinItems(Tail(its))

RECURSIVE DecodeAny(_, _), DecodeArray(_, _, _)
DecodeAny(s, i0) ==
    LET i == SkipWs(s, i0)
    IN IF i > Len(s) THEN ParseFail(ExpectedValue)
       ELSE IF s[i] \in Digits
       THEN LET j == NumberEnd(s, i) IN ParseOk(j, SubSeq(s, i, j - 1), <<>>, FALSE)
       ELSE IF s[i] = "[" THEN DecodeArray(s, i + 1, <<>>)
       ELSE ParseFail(ExpectedValue)

DecodeArray(s, i0, acc) ==
    LET i == SkipWs(s, i0)
    IN IF i <= Len(s) /\ s[i] = "]"
       THEN IF acc = <<>> THEN ParseOk(i + 1, <<"[", "]">>, <<>>, TRUE)
            ELSE ParseFail(ArrayValue1)
       ELSE LET item == DecodeAny(s, i)
            IN IF ~item.ok THEN item
               ELSE LET j == SkipWs(s, item.next)
                        acc2 == Append(acc, item.val)
                    IN IF j <= Len(s) /\ s[j] = "]"
                       THEN ParseOk(j + 1, <<"[">> \o JoinItems(acc2) \o <<"]">>, acc2, TRUE)
                       ELSE IF j <= Len(s) /\ s[j] = ","
                       THEN DecodeArray(s, j + 1, acc2)
                       ELSE ParseFail(ArrayValue2)

\* the whole document: one value, then nothing but whitespace; a top-level
\* array gives one row per item
ReadJson(s) ==
    LET r == DecodeAny(s, 1)
    IN IF ~r.ok THEN r
       ELSE IF SkipWs(s, r.next) <= Len(s) THEN ParseFail(TrailingData)
       ELSE IF ~r.isArray THEN ParseFail(NotAFrame)
       ELSE r

(***************************************************************************)
(* End of stream: parse, bounded repair, re-raise                          *)
(***************************************************************************)
Table(rows, nrep) ==
    [kind |-> "table", rows |-> rows, msg |-> "", status |-> 200, text |-> <<>>, repairs |-> nrep]
Raised(m, code, txt, nrep) ==
    [kind |-> "raise", rows |-> <<>>, msg |-> m, status |-> code, text |-> txt, repairs |-> nrep]
NoResult == [kind |-> "none", rows |-> <<>>, msg |-> "", status |-> 0, text |-> <<>>, repairs |-> 0]

\* the two messages the handler takes for an empty result; the decoder above
\* produces neither of them
IsEmptyResultError(m) == m \in {"Unexpected end of file", "Empty data passed"}

\* the guard of the repair
WorthRepair(json_str) ==
    /\ Strip(json_str) # <<>>
    /\ Strip(json_str) # <<"[">>
    /\ Strip(json_str) # <<"[", "]">>

\* strip one trailing comma, append one closing bracket
Repair(json_str) ==
    IF ~EndsWith(RStrip(json_str), "]")
    THEN IF EndsWith(RStrip(json_str), ",")
         THEN Upto(RStrip(json_str), Len(RStrip(json_str)) - 1) \o <<"]">>
         ELSE json_str \o <<"]">>
    ELSE json_str

\* raising the error of the repaired parse instead
Reraise_Inner(e, e2) == e2

\* the bare raise at the end of the handler: e is the first parse's error,
\* e2 the error of the parse of the repaired text
Reraise(e, e2) == e

ParseOrRepair(json_str) ==
    LET first == ReadJson(json_str)
    IN IF first.ok THEN Table(first.items, 0)
       ELSE IF IsEmptyResultError(first.msg) THEN Table(<<>>, 0)
       ELSE IF WorthRepair(json_str)
       THEN LET second == ReadJson(Repair(json_str))
            IN IF second.ok THEN Table(second.items, 1)
               ELSE Raised(Reraise(first.msg, second.msg), 200, <<>>, 1)
       ELSE Raised(first.msg, 200, <<>>, 0)

(***************************************************************************)
(* Response bodies                                                         *)
(***************************************************************************)
Alphabet == {"[", "]", ",", LF, "1"}
Texts == UNION {[1..k -> Alphabet] : k \in 0..MaxLen}

\* elements of a well-framed body: JSON values without a newline
ElemTexts == {<<"1">>, <<"2">>, <<"1", "2">>, <<"[", "1", ",", "2", "]">>}
ElemLists == UNION {[1..k -> ElemTexts] : k \in 0..MaxElems}

RECURSIVE JoinWith(_, _)
JoinWith(es, sep) ==
    IF es = <<>> THEN <<>>
    ELSE IF Len(es) = 1 THEN es[1]
    ELSE es[1] \o sep \o JoinWith(Tail(es), sep)

\* "[\n" e1 ",\n" e2 ... ",\n" en, with or without the closing "\n]"
Framed(es, closed) ==
    OpenSeq \o JoinWith(es, CommaSeq) \o (IF closed THEN CloseSeq ELSE <<>>)

FramedBodies == {Framed(es, c) : es \in ElemLists, c \in BOOLEAN}
\* a framed body cut off at any point
FramedPrefixes == UNION {{Upto(b, k) : k \in 0..Len(b)} : b \in FramedBodies}

Bodies == Texts \cup FramedPrefixes
StatusCodes == {200, 404}

(***************************************************************************)
(* stream_to_dataframe as a state machine: one request                     *)
(***************************************************************************)
\* only server errors are refused
StatusOK_Lenient(code) == code < 500

StatusOK(code) == code = 200

DecIdle ==
    /\ pos = 0
    /\ json_data = <<>>
    /\ buffer = <<>>
    /\ in_array = FALSE
    /\ pc = "request"
    /\ result = NoResult
    /\ split = FALSE

\* requests.get returned with a status other than 200
RaiseForStatus ==
    /\ pc = "request"
    /\ ~StatusOK(status_code)
    /\ result' = Raised("Error", status_code, body, 0)
    /\ pc' = "done"
    /\ UNCHANGED <<status_code, body, pos, json_data, buffer, in_array, split, normVars, cacheVars, appVars>>

BeginStream ==
    /\ pc = "request"
    /\ StatusOK(status_code)
    /\ pc' = "stream"
    /\ UNCHANGED <<status_code, body, pos, json_data, buffer, in_array, result, split, normVars, cacheVars, appVars>>

\* a chunk boundary after p characters lies inside "[\n", ",\n" or "\n]"
CutsDelimiter(b, p) ==
    /\ 0 < p /\ p < Len(b)
    /\ <<b[p], b[p + 1]>> \in {OpenSeq, CommaSeq, CloseSeq}

\* one iteration of the for loop: iter_content hands over the next k
\* characters; an empty chunk is skipped
ReadChunk ==
    /\ pc = "stream"
    /\ pos < Len(body)
    /\ \E k \in 0..(Len(body) - pos) :
         LET chunk == SubSeq(body, pos + 1, pos + k)
             st == IF chunk = <<>>
                   THEN [json_data |-> json_data, buffer |-> buffer, in_array |-> in_array]
                   ELSE ProcessChunk([json_data |-> json_data, buffer |-> buffer,
                                      in_array |-> in_array], chunk)
         IN /\ pos' = pos + k
            /\ json_data' = st.json_data
            /\ buffer' = st.buffer
            /\ in_array' = st.in_array
            /\ split' = (split \/ CutsDelimiter(body, pos + k))
    /\ UNCHANGED <<status_code, body, pc, result, normVars, cacheVars, appVars>>

\* the stream is exhausted: seek(0), parse, repair, return or raise
EndOfStream ==
    /\ pc = "stream"
    /\ pos = Len(body)
    /\ result' = ParseOrRepair(json_data)
    /\ pc' = "done"
    /\ UNCHANGED <<status_code, body, pos, json_data, buffer, in_array, split, normVars, cacheVars, appVars>>

DecodeNext == RaiseForStatus \/ BeginStream \/ ReadChunk \/ EndOfStream

(***************************************************************************)
(* Tables: a table is the sequence of its rows; a cell is a tagged value.  *)
(* A table decoded from JSON records has the columns of its records, so a  *)
(* table without rows has no columns.                                      *)
(***************************************************************************)
Str(x) == [t |-> "str", s |-> x, v |-> 0]     \* a text cell as decoded
Num(x) == [t |-> "num", s |-> "", v |-> x]    \* a numeric cell
Date(x) == [t |-> "date", s |-> "", v |-> x]  \* a timestamp cell, yyyymmdd
Null == [t |-> "null", s |-> "", v |-> 0]     \* None / NaN / NaT
Absent == [t |-> "absent", s |-> "", v |-> 0] \* the row has no such column

IsNull(c) == c.t = "null"

\* the numeric texts of the model and their values
NumericTexts == {"39", "40", "41", "42", "43", "-72", "-71", "-70"}
NumberOf(x) ==
    CASE x = "39" -> 39 [] x = "40" -> 40 [] x = "41" -> 41 [] x = "42" -> 42 [] x = "43" -> 43
      [] x = "-72" -> 0 - 72 [] x = "-71" -> 0 - 71 [] x = "-70" -> 0 - 70

\* pd.to_numeric(errors="coerce") on one cell
ToNumeric(c) ==
    IF c.t = "num" THEN c
    ELSE IF c.t = "str" /\ c.s \in NumericTexts THEN Num(NumberOf(c.s))
    ELSE Null

\* the date texts of the model and their values
DateTexts == {"2024-12-15", "2025-01-05"}
DateOf(x) == CASE x = "2024-12-15" -> 20241215 [] x = "2025-01-05" -> 20250105

\* pd.to_datetime(errors="coerce") on one cell
ToDatetime(c) ==
    IF c.t = "date" THEN c
    ELSE IF c.t = "str" /\ c.s \in DateTexts THEN Date(DateOf(c.s))
    ELSE Null

\* .dt.to_period("M").dt.to_timestamp(): the first day of the month
ToMonth(c) == IF c.t = "date" THEN Date(c.v - (c.v % 100) + 1) ELSE Null

\* comparisons with NaN are false
Gt(c, n) == c.t = "num" /\ c.v > n
Lt(c, n) == c.t = "num" /\ c.v < n

\* the box with its boundary included
InBox_Inclusive(r) ==
    /\ r.latitude.t = "num" /\ r.latitude.v >= 40 /\ r.latitude.v <= 43
    /\ r.longitude.t = "num" /\ r.longitude.v >= 0 - 72 /\ r.longitude.v <= 0 - 70

\* the bounding-box mask
InBox(r) ==
    /\ Gt(r.latitude, 40) /\ Lt(r.latitude, 43)
    /\ Gt(r.longitude, 0 - 72) /\ Lt(r.longitude, 0 - 70)

CoerceLocation(rows) ==
    [i \in 1..Len(rows) |->
        [rows[i] EXCEPT !.latitude = ToNumeric(@), !.longitude = ToNumeric(@)]]

\* rows with an unparseable date are dropped instead of kept as NaT
CoerceDate_Drop(rows) ==
    LET Parsed(r) == ~IsNull(ToDatetime(r.date))
        kept == SelectSeq(rows, Parsed)
    IN [i \in 1..Len(kept) |->
          [kept[i] EXCEPT !.date = ToDatetime(@), !.month = ToMonth(ToDatetime(kept[i].date))]]

CoerceDate(rows) ==
    [i \in 1..Len(rows) |->
        [rows[i] EXCEPT !.date = ToDatetime(@), !.month = ToMonth(ToDatetime(rows[i].date))]]

Ok(rows) == [raised |-> FALSE, rows |-> rows]
KeyError == [raised |-> TRUE, rows |-> <<>>]

\* process_dataframe; df["latitude"] / df["date"] raise KeyError on a table
\* without columns
process_dataframe(df, location_columns, date_column) ==
    IF df = <<>> /\ (location_columns \/ date_column) THEN KeyError
    ELSE LET located == IF location_columns THEN SelectSeq(CoerceLocation(df), InBox) ELSE df
             dated == IF date_column THEN CoerceDate(located) ELSE located
         IN Ok(dated)

\* no row is dropped
DropNa_None(rows, cols) == rows

\* df.dropna(subset=cols)
DropNa(rows, cols) ==
    LET Complete(r) == \A c \in cols : ~IsNull(r[c]) IN SelectSeq(rows, Complete)

(***************************************************************************)
(* process_dataframe as a state machine: one call                          *)
(***************************************************************************)
MaxRows == 2

RawLatitudes == {Str("39"), Str("40"), Str("41"), Str("43"), Str("abc"), Null}
RawLongitudes == {Str("-72"), Str("-71"), Str("-70"), Null}
RawDates == {Str("2024-12-15"), Str("bad")}

\* a row as decoded from the backend's JSON
RawRow(i, la, lo, d, nt) ==
    [id |-> i, latitude |-> la, longitude |-> lo, date |-> d, month |-> Absent,
     normalized_type |-> nt, category |-> Absent,
     ballistics_evidence |-> Str("1"), day |-> Absent]

\* the coordinate pairs of the model: every latitude with a longitude inside
\* the box, every longitude with a latitude inside, and two pairs wrong in both
RawCoordinates ==
    (RawLatitudes \X {Str("-71")}) \cup ({Str("41")} \X RawLongitudes)
        \cup {<<Str("abc"), Null>>, <<Str("40"), Str("-70")>>}

\* tables of at most n raw rows; the id of a row is its position
RawTables(n) ==
    UNION {{[i \in 1..k |-> RawRow(i, f[i][1][1], f[i][1][2], f[i][2], Str("Trash"))] :
              f \in [1..k -> RawCoordinates \X RawDates]} : k \in 0..n}

NormIdle ==
    /\ df_in = <<>>
    /\ loc_flag = TRUE
    /\ date_flag = TRUE
    /\ df_out = Ok(<<>>)
    /\ npc = "idle"

CallProcess ==
    /\ npc = "call"
    /\ df_out' = process_dataframe(df_in, loc_flag, date_flag)
    /\ npc' = "returned"
    /\ UNCHANGED <<df_in, loc_flag, date_flag, decVars, cacheVars, appVars>>

\* the caller's required-column drop (get_311_data, get_shots_fired_data)
CallerDrop ==
    /\ npc = "returned"
    /\ ~df_out.raised
    /\ loc_flag /\ date_flag
    /\ df_out' = Ok(DropNa(df_out.rows, {"latitude", "longitude", "date"}))
    /\ npc' = "dropped"
    /\ UNCHANGED <<df_in, loc_flag, date_flag, decVars, cacheVars, appVars>>

NormNext == CallProcess \/ CallerDrop

(***************************************************************************)
(* The cache loaders                                                       *)
(***************************************************************************)
MaxTicks == 3      \* the clock advances this many quarters of an hour

Path311 == "df_311.parquet"
PathShots == "df_shots.parquet"
PathMatched == "df_hom_shot_matched.parquet"
Paths == {Path311, PathShots, PathMatched}

NoFile == [exists |-> FALSE, mtime |-> 0, data |-> <<>>]
Written(t, rows) == [exists |-> TRUE, mtime |-> t, data |-> rows]

\* the age in seconds compared with the limit in minutes
cache_stale_Minutes(path, max_age_minutes) ==
    \/ ~files[path].exists
    \/ (now - files[path].mtime) * 60 > max_age_minutes

\* cache_stale(path, max_age_minutes); times are in minutes, the code's in seconds
cache_stale(path, max_age_minutes) ==
    \/ ~files[path].exists
    \/ (now - files[path].mtime) * 60 > max_age_minutes * 60

DefaultMaxAge == 30

\* what stream_to_dataframe hands to a loader: it raised, or a raw table
FetchFailed == [raised |-> TRUE, rows |-> <<>>]
GoodRow(i) == RawRow(i, Str("41"), Str("-71"), Str("2024-12-15"), Str("Trash"))
EdgeRow(i) == RawRow(i, Str("43"), Str("-71"), Str("2024-12-15"), Str("Trash"))
BadLocRow(i) == RawRow(i, Str("abc"), Str("-71"), Str("2024-12-15"), Str("Trash"))
BadDateRow(i) == RawRow(i, Str("41"), Str("-71"), Str("bad"), Str("Trash"))
NoTypeRow(i) == RawRow(i, Str("41"), Str("-71"), Str("2024-12-15"), Null)

Fetched311 ==
    {FetchFailed, Ok(<<>>), Ok(<<GoodRow(1)>>), Ok(<<BadLocRow(1), GoodRow(2)>>),
     Ok(<<NoTypeRow(1), BadDateRow(2), EdgeRow(3)>>)}
FetchedShots ==
    {FetchFailed, Ok(<<>>), Ok(<<GoodRow(1)>>), Ok(<<BadDateRow(1), GoodRow(2), EdgeRow(3)>>)}

\* df.rename(columns={"normalized_type": "category"})
Rename(rows) ==
    [i \in 1..Len(rows) |->
        [rows[i] EXCEPT !.category = rows[i].normalized_type, !.normalized_type = Absent]]

\* get_311_data between the fetch and the cache write
Prepare311(df) ==
    LET p == process_dataframe(df, TRUE, TRUE)
    IN IF p.raised THEN p
       ELSE Ok(DropNa(Rename(p.rows), {"latitude", "longitude", "date", "category"}))

\* df["day"] = df["date"].dt.date and the numeric ballistics_evidence
AddShotColumns(rows) ==
    [i \in 1..Len(rows) |->
        [rows[i] EXCEPT !.ballistics_evidence = ToNumeric(@), !.day = rows[i].date]]

\* get_shots_fired_data between the first fetch and the second
PrepareShots(df) ==
    LET p == process_dataframe(df, TRUE, TRUE)
    IN IF p.raised THEN p
       ELSE Ok(DropNa(AddShotColumns(p.rows), {"latitude", "longitude", "date"}))

\* get_shots_fired_data between the second fetch and the cache writes
PrepareMatched(df) ==
    LET p == process_dataframe(df, TRUE, TRUE)
    IN IF p.raised THEN p
       ELSE Ok(DropNa(p.rows, {"latitude", "longitude", "date"}))

\* the record of a loader call: kind is "cache" (served from the files),
\* "fetched" (returned freshly fetched tables) or "raise"; fetched counts the
\* calls of stream_to_dataframe it made
Call(fn, force, kind, n, tables) ==
    [fn |-> fn, force |-> force, kind |-> kind, fetched |-> n, tables |-> tables]
NoCall == Call("none", FALSE, "none", 0, <<>>)

\* the freshness test without the force_refresh flag
UseCache311_IgnoreForce(force_refresh) == ~cache_stale(Path311, DefaultMaxAge)

\* the freshness test of get_311_data
UseCache311(force_refresh) == ~force_refresh /\ ~cache_stale(Path311, DefaultMaxAge)

\* the freshness test of get_shots_fired_data
UseCacheShots(force_refresh) ==
    /\ ~force_refresh
    /\ ~cache_stale(PathShots, DefaultMaxAge)
    /\ ~cache_stale(PathMatched, DefaultMaxAge)

CacheIdle ==
    /\ now = 0
    /\ files = [p \in Paths |-> NoFile]
    /\ last = NoCall
    /\ paired = FALSE
    /\ raised_in = "none"

\* time passes
Tick ==
    /\ now + 15 <= 15 * MaxTicks
    /\ now' = now + 15
    /\ UNCHANGED <<files, last, paired, raised_in, decVars, normVars, appVars>>

\* get_311_data served from the cache file
Load311Cached ==
    /\ \E force_refresh \in BOOLEAN :
         /\ UseCache311(force_refresh)
         /\ last' = Call("311", force_refresh, "cache", 0, <<files[Path311].data>>)
         /\ raised_in' = "none"
    /\ UNCHANGED <<now, files, paired, decVars, normVars, appVars>>

\* get_311_data through the network, stream_to_dataframe or the processing raising
Load311Fail ==
    /\ \E force_refresh \in BOOLEAN, got \in Fetched311 :
         /\ ~UseCache311(force_refresh)
         /\ got.raised \/ Prepare311(got.rows).raised
         /\ last' = Call("311", force_refresh, "raise", 1, <<>>)
         /\ raised_in' = IF got.raised THEN "stream_to_dataframe" ELSE "process_dataframe"
    /\ UNCHANGED <<now, files, paired, decVars, normVars, appVars>>

\* get_311_data through the network; to_parquet writes the file or raises
Load311Fetch ==
    /\ \E force_refresh \in BOOLEAN, got \in Fetched311, written \in BOOLEAN :
         /\ ~UseCache311(force_refresh)
         /\ ~got.raised /\ ~Prepare311(got.rows).raised
         /\ LET df == Prepare311(got.rows).rows
            IN IF written
               THEN /\ files' = [files EXCEPT ![Path311] = Written(now, df)]
                    /\ last' = Call("311", force_refresh, "fetched", 1, <<df>>)
                    /\ raised_in' = "none"
               ELSE /\ last' = Call("311", force_refresh, "raise", 1, <<>>)
                    /\ raised_in' = "to_parquet"
                    /\ UNCHANGED files
    /\ UNCHANGED <<now, paired, decVars, normVars, appVars>>

\* get_shots_fired_data served from the two cache files
LoadShotsCached ==
    /\ \E force_refresh \in BOOLEAN :
         /\ UseCacheShots(force_refresh)
         /\ last' = Call("shots", force_refresh, "cache", 0,
                         <<files[PathShots].data, files[PathMatched].data>>)
         /\ raised_in' = "none"
    /\ UNCHANGED <<now, files, paired, decVars, normVars, appVars>>

\* get_shots_fired_data, the first fetch or its processing raising
LoadShotsFail ==
    /\ \E force_refresh \in BOOLEAN, got \in FetchedShots :
         /\ ~UseCacheShots(force_refresh)
         /\ got.raised \/ PrepareShots(got.rows).raised
         /\ last' = Call("shots", force_refresh, "raise", 1, <<>>)
         /\ raised_in' = IF got.raised THEN "stream_to_dataframe" ELSE "process_dataframe"
    /\ UNCHANGED <<now, files, paired, decVars, normVars, appVars>>

\* the shots file written before the second fetch is made
LoadShotsFailMatched_WritesFirst ==
    /\ \E force_refresh \in BOOLEAN, got \in FetchedShots, got_matched \in FetchedShots :
         /\ ~UseCacheShots(force_refresh)
         /\ ~got.raised /\ ~PrepareShots(got.rows).raised
         /\ got_matched.raised \/ PrepareMatched(got_matched.rows).raised
         /\ last' = Call("shots", force_refresh, "raise", 2, <<>>)
         /\ raised_in' = IF got_matched.raised THEN "stream_to_dataframe"
                         ELSE "process_dataframe"
         /\ files' = [files EXCEPT ![PathShots] = Written(now, PrepareShots(got.rows).rows)]
    /\ UNCHANGED <<now, paired, decVars, normVars, appVars>>

\* get_shots_fired_data, the second fetch or its processing raising
LoadShotsFailMatched ==
    /\ \E force_refresh \in BOOLEAN, got \in FetchedShots, got_matched \in FetchedShots :
         /\ ~UseCacheShots(force_refresh)
         /\ ~got.raised /\ ~PrepareShots(got.rows).raised
         /\ got_matched.raised \/ PrepareMatched(got_matched.rows).raised
         /\ last' = Call("shots", force_refresh, "raise", 2, <<>>)
         /\ raised_in' = IF got_matched.raised THEN "stream_to_dataframe"
                         ELSE "process_dataframe"
    /\ UNCHANGED <<now, files, paired, decVars, normVars, appVars>>

\* get_shots_fired_data with both fetches done; written is the number of
\* to_parquet calls that succeed before one raises; a write that raises
\* leaves its file as it was
LoadShotsFetch ==
    /\ \E force_refresh \in BOOLEAN, got \in FetchedShots, got_matched \in FetchedShots,
          written \in 0..2 :
         /\ ~UseCacheShots(force_refresh)
         /\ ~got.raised /\ ~PrepareShots(got.rows).raised
         /\ ~got_matched.raised /\ ~PrepareMatched(got_matched.rows).raised
         /\ LET df == PrepareShots(got.rows).rows
                df_matched == PrepareMatched(got_matched.rows).rows
            IN CASE written = 0 ->
                      /\ last' = Call("shots", force_refresh, "raise", 2, <<>>)
                      /\ raised_in' = "to_parquet"
                      /\ UNCHANGED <<files, paired>>
                 [] written = 1 ->
                      /\ last' = Call("shots", force_refresh, "raise", 2, <<>>)
                      /\ raised_in' = "to_parquet"
                      /\ files' = [files EXCEPT ![PathShots] = Written(now, df)]
                      /\ paired' = FALSE
                 [] written = 2 ->
                      /\ last' = Call("shots", force_refresh, "fetched", 2, <<df, df_matched>>)
                      /\ raised_in' = "none"
                      /\ files' = [files EXCEPT ![PathShots] = Written(now, df),
                                                ![PathMatched] = Written(now, df_matched)]
                      /\ paired' = TRUE
    /\ UNCHANGED <<now, decVars, normVars, appVars>>

CacheNext ==
    \/ Tick
    \/ Load311Cached \/ Load311Fail \/ Load311Fetch
    \/ LoadShotsCached \/ LoadShotsFail \/ LoadShotsFailMatched \/ LoadShotsFetch

(***************************************************************************)
(* The map and summary callbacks over the tables loaded at start-up        *)
(***************************************************************************)
MaxRecs == 3       \* rows of a loaded table

\* str() of a record id
ToStr(i) == <<"1", "2", "3", "4", "5", "6", "7", "8", "9">>[i]

\* the elements of a list
Range(seq) == {seq[j] : j \in 1..Len(seq)}

\* h3.latlng_to_cell: the cell of a point at a resolution.  The points of the
\* model lie whole degrees apart, so two points share a cell exactly when
\* they coincide.
latlng_to_cell(lat, lon, res) == [res |-> res, lat |-> lat, lon |-> lon]

\* h3.cell_to_latlng: the centre of a cell
cell_to_latlng(hex_id) == <<hex_id.lat, hex_id.lon>>

\* h3.cell_to_boundary: the six corners of a cell, as (lat, lng) pairs
cell_to_boundary(hex_id) ==
    [k \in 1..6 |-> <<[axis |-> "lat", cell |-> hex_id, corner |-> k],
                      [axis |-> "lng", cell |-> hex_id, corner |-> k]>>]

\* coords: the corners as [lng, lat], the first repeated at the end
Ring(hex_id) ==
    LET boundary == cell_to_boundary(hex_id)
    IN [k \in 1..Len(boundary) |-> <<boundary[k][2], boundary[k][1]>>]
         \o <<<<boundary[1][2], boundary[1][1]>>>>

\* datetime.strptime(date_string, "%B %Y") on the texts of the model
DateValues == {"December 2024", "January 2025", "latest"}
date_string_to_year_month(date_string) ==
    CASE date_string = "December 2024" -> <<2024, 12>>
      [] date_string = "January 2025" -> <<2025, 1>>
      [] OTHER -> <<2024, 12>>

\* pd.Timestamp(f"{year}-{month:02d}")
Timestamp(ym) == Date(ym[1] * 10000 + ym[2] * 100 + 1)

\* df[df["month"] == ts]
MonthRows311(df, ts) == SelectSeq(df, LAMBDA r : r.month = ts)

\* df[df["date"].dt.to_period("M").dt.to_timestamp() == ts]
MonthRowsByDate(df, ts) == SelectSeq(df, LAMBDA r : ToMonth(r.date) = ts)

\* the list of a cell is replaced by the new id instead of extended
SetDefaultAppend_Overwrite(d, key, x) ==
    IF \E j \in 1..Len(d) : d[j].key = key
    THEN [j \in 1..Len(d) |-> IF d[j].key = key THEN [d[j] EXCEPT !.val = <<x>>] ELSE d[j]]
    ELSE Append(d, [key |-> key, val |-> <<x>>])

\* d.setdefault(key, []).append(x) on a dict kept in insertion order
SetDefaultAppend(d, key, x) ==
    IF \E j \in 1..Len(d) : d[j].key = key
    THEN [j \in 1..Len(d) |-> IF d[j].key = key THEN [d[j] EXCEPT !.val = Append(@, x)] ELSE d[j]]
    ELSE Append(d, [key |-> key, val |-> <<x>>])

\* hex_to_points after the loop over the rows
RECURSIVE HexToPoints(_)
HexToPoints(rows) ==
    IF rows = <<>> THEN <<>>
    ELSE LET row == rows[Len(rows)]
             hex_id == latlng_to_cell(row.latitude.v, row.longitude.v, 10)
         IN SetDefaultAppend(HexToPoints(SubSeq(rows, 1, Len(rows) - 1)), hex_id, ToStr(row.id))

FeatureCollection(features) == [type |-> "FeatureCollection", features |-> features]
None == [type |-> "None", features |-> <<>>]

\* a hex feature of update_map_data
MonthFeature(e) ==
    [type |-> "Feature", id |-> e.key,
     properties |-> [hex_id |-> e.key, value |-> Len(e.val),
                     lat |-> cell_to_latlng(e.key)[1], lon |-> cell_to_latlng(e.key)[2],
                     ids |-> e.val],
     geometry |-> [type |-> "Polygon", coordinates |-> <<Ring(e.key)>>]]

\* a point feature of update_map_data
PointFeature(row) ==
    [type |-> "Feature", id |-> ToStr(row.id),
     properties |-> [id |-> ToStr(row.id)],
     geometry |-> [type |-> "Point", coordinates |-> <<row.longitude.v, row.latitude.v>>]]

PointFeatures(rows) == FeatureCollection([j \in 1..Len(rows) |-> PointFeature(rows[j])])

\* update_map_data(date_value): hex_data, shots_data, homicides_data
update_map_data(date_value) ==
    LET selected_month == Timestamp(date_string_to_year_month(date_value))
        df_month == MonthRows311(df_311, selected_month)
        shots_month == MonthRowsByDate(df_shots, selected_month)
        homicides_month == MonthRowsByDate(df_hom_shot_matched, selected_month)
        hex_to_points == HexToPoints(df_month)
    IN IF df_month = <<>> THEN <<FeatureCollection(<<>>), None, None>>
       ELSE <<FeatureCollection([j \in 1..Len(hex_to_points) |-> MonthFeature(hex_to_points[j])]),
              PointFeatures(shots_month), PointFeatures(homicides_month)>>

\* the largest of a non-empty set of numbers
Max(S) == CHOOSE m \in S : \A x \in S : x <= m

\* the largest cell count less one
max_value_LessOne(hex_to_points) ==
    IF hex_to_points # <<>>
    THEN Max({Len(hex_to_points[j].val) : j \in 1..Len(hex_to_points)}) - 1
    ELSE 1

\* max([len(points) for points in hex_to_points.values()]) if hex_to_points else 1
max_value(hex_to_points) ==
    IF hex_to_points # <<>>
    THEN Max({Len(hex_to_points[j].val) : j \in 1..Len(hex_to_points)})
    ELSE 1

\* exact fractions: a / b, q * k, k + q
Quot(a, b) == [num |-> a, den |-> b]
Scale(q, k) == [num |-> q.num * k, den |-> q.den]
Plus(k, q) == [num |-> k * q.den + q.num, den |-> q.den]

\* the count share scaled by 9 without the offset of 1
normalized_value_NoOffset(count, max) == Scale(Quot(count, max), 9)

\* the count share scaled by 10 instead of 9
normalized_value_Scale10(count, max) == Plus(1, Scale(Quot(count, max), 10))

\* 1 + (count / max_value) * 9
normalized_value(count, max) == Plus(1, Scale(Quot(count, max), 9))

\* a hex feature of get_all_hexbin_data
AllFeature(e, max) ==
    [type |-> "Feature", id |-> e.key,
     properties |-> [hex_id |-> e.key, value |-> normalized_value(Len(e.val), max),
                     count |-> Len(e.val),
                     lat |-> cell_to_latlng(e.key)[1], lon |-> cell_to_latlng(e.key)[2]],
     geometry |-> [type |-> "Polygon", coordinates |-> <<Ring(e.key)>>]]

ZeroDivisionError == [type |-> "ZeroDivisionError", features |-> <<>>]

\* get_all_hexbin_data(_)
get_all_hexbin_data ==
    LET df_all == df_311
        hex_to_points == HexToPoints(df_all)
        max == max_value(hex_to_points)
    IN IF df_all = <<>> THEN FeatureCollection(<<>>)
       ELSE IF hex_to_points # <<>> /\ max = 0 THEN ZeroDivisionError
       ELSE FeatureCollection([j \in 1..Len(hex_to_points) |-> AllFeature(hex_to_points[j], max)])

\* selected.get(key, [])
Get(selected, key) == IF key \in DOMAIN selected THEN selected[key] ELSE <<>>

\* the id filter applied whatever the list holds
FilterIds_Always(df_month, ids) == SelectSeq(df_month, LAMBDA r : ToStr(r.id) \in Range(ids))

\* if ids: df_month[df_month["id"].astype(str).isin(ids)]
FilterIds(df_month, ids) ==
    IF ids # <<>> THEN SelectSeq(df_month, LAMBDA r : ToStr(r.id) \in Range(ids))
    ELSE df_month

\* df[col].value_counts().to_dict(): the non-null values and their row counts
value_counts(df, col) ==
    LET present == {df[j][col].s : j \in {k \in 1..Len(df) : ~IsNull(df[k][col])}}
    IN [c \in present |-> Cardinality({j \in 1..Len(df) : df[j][col] = Str(c)})]

\* update_category_counts(selected, date_str)
update_category_counts(selected, date_str) ==
    LET ts == Timestamp(date_string_to_year_month(date_str))
        df_month == MonthRows311(df_311, ts)
        ids == Get(selected, "selected_ids")
    IN value_counts(FilterIds(df_month, ids), "category")

\* the month's rows are counted whatever the selection
InCells_All(df_month, hex_ids) == df_month

\* df_month[df_month["cell"].isin(hex_ids)]
InCells(df_month, hex_ids) ==
    SelectSeq(df_month, LAMBDA r : latlng_to_cell(r.latitude.v, r.longitude.v, 10) \in Range(hex_ids))

\* update_shot_count(selected, date_str)
update_shot_count(selected, date_str) ==
    LET ts == Timestamp(date_string_to_year_month(date_str))
        df_month == MonthRowsByDate(df_shots, ts)
        hex_ids == Get(selected, "selected_hexbins")
    IN IF hex_ids = <<>> THEN Len(df_month)
       ELSE Len(InCells(df_month, hex_ids))

\* ---- the tables the callbacks read, as the loaders return them ----
ViewLatitudes == {Str("41"), Str("42")}
ViewDates == {Str("2024-12-15"), Str("2025-01-05")}
ViewTypes == {Str("Trash"), Str("Streets")}

ViewRaw(n, latitudes, types) ==
    UNION {{[i \in 1..k |-> RawRow(i, f[i][1], Str("-71"), f[i][2], f[i][3])] :
              f \in [1..k -> latitudes \X ViewDates \X types]} : k \in 1..n}

\* df_311 = get_311_data(): rows that differ in place and month, or in month
\* and category; a table whose only row lies outside the box is empty
Loaded311(n) ==
    {Prepare311(t).rows : t \in ViewRaw(n, ViewLatitudes, {Str("Trash")})
                                  \cup ViewRaw(n, {Str("41")}, ViewTypes)
                                  \cup {<<EdgeRow(1)>>}}

\* df_shots, df_hom_shot_matched = get_shots_fired_data()
LoadedShots(n) ==
    {PrepareShots(t).rows : t \in ViewRaw(n, ViewLatitudes, {Str("Trash")}) \cup {<<EdgeRow(1)>>}}

Sample311 ==
    Prepare311(<<RawRow(1, Str("41"), Str("-71"), Str("2024-12-15"), Str("Trash")),
                 RawRow(2, Str("42"), Str("-71"), Str("2025-01-05"), Str("Streets"))>>).rows
SampleShots ==
    PrepareShots(<<RawRow(1, Str("41"), Str("-71"), Str("2024-12-15"), Str("Trash")),
                   RawRow(2, Str("42"), Str("-71"), Str("2024-12-15"), Str("Trash"))>>).rows
SampleMatched ==
    PrepareMatched(<<RawRow(1, Str("42"), Str("-71"), Str("2024-12-15"), Str("Trash"))>>).rows

\* the selections the selected-hexbins-store can hold
CellA == latlng_to_cell(41, 0 - 71, 10)
CellB == latlng_to_cell(42, 0 - 71, 10)
CellC == latlng_to_cell(41, 0 - 70, 10)
Selection(hexbins, ids) == [selected_hexbins |-> hexbins, selected_ids |-> ids]
NoKeys == [k \in {} |-> <<>>]
Selections ==
    {NoKeys, Selection(<<>>, <<>>), Selection(<<CellA>>, <<"1">>),
     Selection(<<CellC>>, <<"9">>), Selection(<<CellB, CellC>>, <<"3", "9", "1">>)}

Callback(fn, date, selected, ret) == [fn |-> fn, date |-> date, selected |-> selected, ret |-> ret]
NoCallback == Callback("none", "", NoKeys, 0)

ViewIdle ==
    /\ df_311 = <<>>
    /\ df_shots = <<>>
    /\ df_hom_shot_matched = <<>>
    /\ cb = NoCallback

UpdateMapData ==
    /\ \E date_value \in DateValues :
         cb' = Callback("update_map_data", date_value, NoKeys, update_map_data(date_value))
    /\ UNCHANGED <<df_311, df_shots, df_hom_shot_matched, decVars, normVars, cacheVars, batchVars, restVars>>

GetAllHexbinData ==
    /\ cb' = Callback("get_all_hexbin_data", "", NoKeys, get_all_hexbin_data)
    /\ UNCHANGED <<df_311, df_shots, df_hom_shot_matched, decVars, normVars, cacheVars, batchVars, restVars>>

UpdateCategoryCounts ==
    /\ \E selected \in Selections, date_str \in DateValues :
         cb' = Callback("update_category_counts", date_str, selected,
                        update_category_counts(selected, date_str))
    /\ UNCHANGED <<df_311, df_shots, df_hom_shot_matched, decVars, normVars, cacheVars, batchVars, restVars>>

UpdateShotCount ==
    /\ \E selected \in Selections, date_str \in DateValues :
         cb' = Callback("update_shot_count", date_str, selected,
                        update_shot_count(selected, date_str))
    /\ UNCHANGED <<df_311, df_shots, df_hom_shot_matched, decVars, normVars, cacheVars, batchVars, restVars>>

ViewNext == UpdateMapData \/ GetAllHexbinData \/ UpdateCategoryCounts \/ UpdateShotCount

(***************************************************************************)
(* get_select_311_data with event_ids, called by                           *)
(* compute_area_category_counts                                            *)
(***************************************************************************)
MaxIds == 120      \* ids in the list handed to compute_area_category_counts
BATCH_SIZE == 50

\* an event id: the decimal text of a number
Digit(d) == <<"0", "1", "2", "3", "4", "5", "6", "7", "8", "9">>[d + 1]
RECURSIVE Decimal(_)
Decimal(k) == IF k < 10 THEN <<Digit(k)>> ELSE Append(Decimal(k \div 10), Digit(k % 10))
EventIds(n) == [k \in 1..n |-> Decimal(k)]

\* ",".join(list), the list joined by halves
RECURSIVE JoinComma(_)
JoinComma(list) ==
    IF list = <<>> THEN <<>>
    ELSE IF Len(list) = 1 THEN list[1]
    ELSE LET h == Len(list) \div 2
         IN JoinComma(SubSeq(list, 1, h)) \o <<",">> \o JoinComma(SubSeq(list, h + 1, Len(list)))

\* text.split(","), the text split at its middle comma first
RECURSIVE SplitComma(_)
SplitComma(text) ==
    LET commas == {p \in 1..Len(text) : text[p] = ","}
    IN IF commas = {} THEN <<text>>
       ELSE LET p == CHOOSE c \in commas :
                        Cardinality({q \in commas : q < c}) = Cardinality(commas) \div 2
            IN SplitComma(SubSeq(text, 1, p - 1)) \o SplitComma(SubSeq(text, p + 1, Len(text)))

\* the slice one position short
BatchIds_Short(list, i) ==
    SubSeq(list, i + 1, IF i + BATCH_SIZE - 1 < Len(list) THEN i + BATCH_SIZE - 1 ELSE Len(list))

\* id_list[i:i + BATCH_SIZE]
BatchIds(list, i) ==
    SubSeq(list, i + 1, IF i + BATCH_SIZE < Len(list) THEN i + BATCH_SIZE ELSE Len(list))

\* a table of the summary endpoint: its columns and its rows
Frame(cols, rows) == [cols |-> cols, rows |-> rows]
BatchFailed == [raised |-> TRUE, df |-> Frame(<<>>, <<>>)]
BatchOk(rows) == [raised |-> FALSE, df |-> Frame(<<"reported_issue", "total">>, rows)]

BatchOther(rows) == [raised |-> FALSE, df |-> Frame(<<"type", "n">>, rows)]

\* what stream_to_dataframe hands back for one batch: a failure, a summary
\* with the columns reported_issue and total, or one with other columns
BatchResponses ==
    {BatchFailed, BatchOk(<<<<"Trash", 1>>>>), BatchOk(<<<<"Trash", 2>>, <<"Streets", 1>>>>),
     BatchOther(<<<<"Trash", 1>>>>), BatchOther(<<<<"Trash", 2>>, <<"Streets", 1>>>>)}

\* pd.concat(all_dfs, ignore_index=True) of tables with the same columns
RECURSIVE Concat(_)
Concat(dfs) ==
    IF Len(dfs) = 1 THEN dfs[1]
    ELSE LET before == Concat(SubSeq(dfs, 1, Len(dfs) - 1))
         IN Frame(before.cols, before.rows \o dfs[Len(dfs)].rows)

\* the labels of the model in sorted order
SortedLabels == <<"Streets", "Trash">>

RECURSIVE SumTotals(_, _)
SumTotals(rows, label) ==
    IF rows = <<>> THEN 0
    ELSE (IF rows[1][1] = label THEN rows[1][2] ELSE 0) + SumTotals(Tail(rows), label)

\* df.groupby("reported_issue", as_index=False)["total"].sum()
GroupSum(df) ==
    LET present == SelectSeq(SortedLabels, LAMBDA l : \E j \in 1..Len(df.rows) : df.rows[j][1] = l)
    IN Frame(df.cols, [j \in 1..Len(present) |-> <<present[j], SumTotals(df.rows, present[j])>>])

\* df.to_csv(index=False): the header line and one line per row, every field
\* as text
to_csv(df) ==
    <<df.cols>> \o [j \in 1..Len(df.rows) |-> <<df.rows[j][1], ToStr(df.rows[j][2])>>]

\* the number a field of digits reads as, 0 for any other field
ParseInt(field) ==
    IF \E k \in 1..9 : ToStr(k) = field THEN CHOOSE k \in 1..9 : ToStr(k) = field ELSE 0

\* the tables concatenated and never summed
Aggregate_NoGroup(dfs) ==
    IF dfs # <<>> THEN to_csv(Concat(dfs)) ELSE <<>>

\* get_select_311_data after the loop: the aggregate as CSV text, the empty
\* text without tables
Aggregate(dfs) ==
    IF dfs # <<>>
    THEN LET df == Concat(dfs)
         IN IF "reported_issue" \in Range(df.cols) /\ "total" \in Range(df.cols)
            THEN to_csv(GroupSum(df)) ELSE to_csv(df)
    ELSE <<>>

Resolved(state, csv_str, counts) == [state |-> state, csv_str |-> csv_str, counts |-> counts]
NoCounts == [l \in {} |-> 0]

\* compute_area_category_counts after get_select_311_data returned:
\* pd.read_csv raises EmptyDataError on the empty text
ReadCounts(csv_str) ==
    IF csv_str = <<>> THEN Resolved("EmptyDataError", csv_str, NoCounts)
    ELSE LET cols == csv_str[1]
             lines == Tail(csv_str)
             Col(name) == CHOOSE c \in 1..Len(cols) : cols[c] = name
             label_col == IF "reported_issue" \in Range(cols) /\ "total" \in Range(cols)
                          THEN Col("reported_issue") ELSE 1
             value_col == IF "reported_issue" \in Range(cols) /\ "total" \in Range(cols)
                          THEN Col("total") ELSE 2
             labels == {lines[j][label_col] : j \in 1..Len(lines)}
             LastOf(l) == Max({j \in 1..Len(lines) : lines[j][label_col] = l})
         IN Resolved("returned", csv_str,
                     [l \in labels |-> ParseInt(lines[LastOf(l)][value_col])])

BatchIdle ==
    /\ event_ids = <<>>
    /\ id_list = <<>>
    /\ batch_i = 0
    /\ sent = <<>>
    /\ answers = <<>>
    /\ all_dfs = <<>>
    /\ bpc = "idle"
    /\ resolved = Resolved("none", <<>>, NoCounts)

\* compute_area_category_counts up to the loop of get_select_311_data
BatchCall ==
    /\ bpc = "call"
    /\ IF event_ids = <<>>
       THEN /\ resolved' = Resolved("returned", <<>>, NoCounts)
            /\ bpc' = "resolved"
            /\ UNCHANGED id_list
       ELSE /\ id_list' = SplitComma(JoinComma(event_ids))
            /\ bpc' = "loop"
            /\ UNCHANGED resolved
    /\ UNCHANGED <<event_ids, batch_i, sent, answers, all_dfs, decVars, normVars, cacheVars, viewVars, restVars>>

\* one turn of the loop: the request of a batch, answered or failing; the
\* answers to one resolve come from one endpoint and carry the same columns
BatchRequest ==
    /\ bpc = "loop"
    /\ batch_i < Len(id_list)
    /\ \E got \in BatchResponses :
         /\ IF got.raised \/ all_dfs = <<>> THEN TRUE ELSE got.df.cols = all_dfs[1].cols
         /\ sent' = Append(sent, BatchIds(id_list, batch_i))
         /\ answers' = Append(answers, got)
         /\ all_dfs' = IF got.raised THEN all_dfs ELSE Append(all_dfs, got.df)
    /\ batch_i' = batch_i + BATCH_SIZE
    /\ UNCHANGED <<event_ids, id_list, bpc, resolved, decVars, normVars, cacheVars, viewVars, restVars>>

\* the loop is over: get_select_311_data returns the CSV text
BatchReturn ==
    /\ bpc = "loop"
    /\ batch_i >= Len(id_list)
    /\ resolved' = Resolved("csv", Aggregate(all_dfs), NoCounts)
    /\ bpc' = "returned"
    /\ UNCHANGED <<event_ids, id_list, batch_i, sent, answers, all_dfs, decVars, normVars, cacheVars, viewVars, restVars>>

\* compute_area_category_counts reads the text it got
BatchResolve ==
    /\ bpc = "returned"
    /\ resolved' = ReadCounts(resolved.csv_str)
    /\ bpc' = "resolved"
    /\ UNCHANGED <<event_ids, id_list, batch_i, sent, answers, all_dfs, decVars, normVars, cacheVars, viewVars, restVars>>

BatchNext == BatchCall \/ BatchRequest \/ BatchReturn \/ BatchResolve

(***************************************************************************)
(* The chat callbacks.  The children of a message panel are a sequence of  *)
(* messages; a panel without children (None) is the empty sequence, which  *)
(* is what "current_messages or []" makes of it.                           *)
(***************************************************************************)
MaxClicks == 2     \* refresh-chat-btn n_clicks the callbacks count up to

\* n_clicks: None or a number
NoneClicks == [none |-> TRUE, n |-> 0]
Clicks(n) == [none |-> FALSE, n |-> n]

\* 0 if refresh_clicks is None else refresh_clicks + 1
NextClicks(clicks) ==
    IF clicks.none THEN Clicks(0) ELSE Clicks(clicks.n + 1)

\* what the chat endpoint does with a request
ChatOutcomes == {"ok", "no_response_field", "post_failed", "non_200"}
\* what a data query made for the prompt does
QueryOutcomes == {"ok", "failed"}

\* get_chat_response: requests.post or raise_for_status raising ends in the
\* except branch
get_chat_response(outcome) ==
    CASE outcome = "ok" -> [raised |-> FALSE, reply |-> "reply"]
      [] outcome = "no_response_field" -> [raised |-> FALSE, reply |-> "[No reply received]"]
      [] OTHER -> [raised |-> FALSE, reply |-> "[Error: e]"]

\* html.Div([html.Strong(strong), dcc.Markdown(reply)], className="bot-message")
BotMessage(strong, reply) == [className |-> "bot-message", strong |-> strong, markdown |-> reply]

\* the data queries of a prompt about a selected area: the batch resolve skips
\* failing batches, the query by date raises what stream_to_dataframe raises
AreaQueriesRaise(has_ids, ids_query, date_query) == has_ids /\ date_query = "failed"

ChatEvent(fn, outcome, failed) == [fn |-> fn, outcome |-> outcome, failed |-> failed]

ChatIdle ==
    /\ chat_messages = <<>>
    /\ chat_messages_right = <<>>
    /\ refresh_clicks = Clicks(0)
    /\ chat_event = ChatEvent("none", "none", FALSE)

\* current_messages + [bot_response]
Extend(messages, message) == messages \o <<message>>

\* handle_chat_response(stored_input, slider_value, current_messages,
\* selected_hexbins_data, refresh_clicks)
HandleChatResponse ==
    /\ refresh_clicks.n < MaxClicks
    /\ \E has_ids \in BOOLEAN, ids_query \in QueryOutcomes, date_query \in QueryOutcomes,
          chat \in ChatOutcomes :
         IF AreaQueriesRaise(has_ids, ids_query, date_query)
         THEN /\ chat_event' = ChatEvent("handle_chat_response", "raised", TRUE)
              /\ UNCHANGED <<chat_messages, refresh_clicks>>
         ELSE LET got == get_chat_response(chat)
              IN IF got.raised
                 THEN /\ chat_event' = ChatEvent("handle_chat_response", "raised", TRUE)
                      /\ UNCHANGED <<chat_messages, refresh_clicks>>
                 ELSE /\ chat_messages' = Extend(chat_messages, BotMessage("", got.reply))
                      /\ refresh_clicks' = NextClicks(refresh_clicks)
                      /\ chat_event' = ChatEvent("handle_chat_response", "returned",
                             chat \in {"post_failed", "non_200"} \/ (has_ids /\ ids_query = "failed"))
    /\ UNCHANGED <<chat_messages_right, decVars, normVars, cacheVars, viewVars, batchVars,
                   tabVars, concVars>>

\* handle_chat_response_right(stored_input, slider_value, msgs, selected, refresh_clicks)
HandleChatResponseRight ==
    /\ refresh_clicks.n < MaxClicks
    /\ \E chat \in ChatOutcomes :
         LET got == get_chat_response(chat)
         IN IF got.raised
            THEN /\ chat_event' = ChatEvent("handle_chat_response_right", "raised", TRUE)
                 /\ UNCHANGED <<chat_messages_right, refresh_clicks>>
            ELSE /\ chat_messages_right' = Append(chat_messages_right, BotMessage("", got.reply))
                 /\ refresh_clicks' = NextClicks(refresh_clicks)
                 /\ chat_event' = ChatEvent("handle_chat_response_right", "returned",
                        chat \in {"post_failed", "non_200"})
    /\ UNCHANGED <<chat_messages, decVars, normVars, cacheVars, viewVars, batchVars,
                   tabVars, concVars>>

\* handle_tell_me_prompt(prompt, current_messages, refresh_clicks)
HandleTellMePrompt ==
    /\ refresh_clicks.n < MaxClicks
    /\ \E prompt \in {"", "Give me more details"}, chat \in ChatOutcomes :
         IF prompt = ""
         THEN /\ chat_event' = ChatEvent("handle_tell_me_prompt", "no_update", FALSE)
              /\ UNCHANGED <<chat_messages, refresh_clicks>>
         ELSE LET got == get_chat_response(chat)
              IN IF got.raised
                 THEN /\ chat_event' = ChatEvent("handle_tell_me_prompt", "raised", TRUE)
                      /\ UNCHANGED <<chat_messages, refresh_clicks>>
                 ELSE /\ chat_messages' = Extend(chat_messages,
                             BotMessage("This is what your neighbors are concerned with:", got.reply))
                      /\ refresh_clicks' = NextClicks(refresh_clicks)
                      /\ chat_event' = ChatEvent("handle_tell_me_prompt", "returned",
                             chat \in {"post_failed", "non_200"})
    /\ UNCHANGED <<chat_messages_right, decVars, normVars, cacheVars, viewVars, batchVars,
                   tabVars, concVars>>

\* handle_initial_prompts(n_clicks, selected, slider_value, refresh_clicks)
HandleInitialPrompts ==
    /\ refresh_clicks.n < MaxClicks
    /\ \E n_clicks \in 0..1, has_ids \in BOOLEAN, ids_query \in QueryOutcomes,
          date_query \in QueryOutcomes, stats_chat \in ChatOutcomes, community_chat \in ChatOutcomes :
         IF n_clicks = 0
         THEN /\ chat_event' = ChatEvent("handle_initial_prompts", "no_update", FALSE)
              /\ UNCHANGED <<chat_messages, chat_messages_right, refresh_clicks>>
         ELSE IF AreaQueriesRaise(has_ids, ids_query, date_query)
                   \/ get_chat_response(stats_chat).raised
                   \/ get_chat_response(community_chat).raised
         THEN /\ chat_event' = ChatEvent("handle_initial_prompts", "raised", TRUE)
              /\ UNCHANGED <<chat_messages, chat_messages_right, refresh_clicks>>
         ELSE /\ chat_messages' =
                    <<BotMessage("A by-the-numbers overview of your neighborhood:",
                                 get_chat_response(stats_chat).reply)>>
              /\ chat_messages_right' =
                    <<BotMessage("From recent community meetings:",
                                 get_chat_response(community_chat).reply)>>
              /\ refresh_clicks' = NextClicks(refresh_clicks)
              /\ chat_event' = ChatEvent("handle_initial_prompts", "returned",
                     \/ stats_chat \in {"post_failed", "non_200"}
                     \/ community_chat \in {"post_failed", "non_200"}
                     \/ (has_ids /\ ids_query = "failed"))
    /\ UNCHANGED <<decVars, normVars, cacheVars, viewVars, batchVars, tabVars, concVars>>

ChatNext ==
    HandleChatResponse \/ HandleChatResponseRight \/ HandleTellMePrompt \/ HandleInitialPrompts

(***************************************************************************)
(* The two chat tabs.  tabs holds the five outputs of switch_tabs as the   *)
(* page shows them; a container without a style attribute is displayed.    *)
(***************************************************************************)
MaxTabClicks == 3    \* clicks on each tab

InputValues == {"", " ", "hi", "how many"}

TabsOf(stats_style, community_style, stats_class, community_class, active_tab) ==
    [stats_style |-> stats_style, community_style |-> community_style,
     stats_class |-> stats_class, community_class |-> community_class,
     active_tab |-> active_tab]

StatsView == TabsOf("block", "none", "chat-tab active", "chat-tab", "stats")
CommunityView == TabsOf("none", "block", "chat-tab", "chat-tab active", "community")

\* the layout: stats-chat-container without style, community-chat-container
\* hidden, the stats tab active, active-tab-store "stats"
LayoutView == TabsOf("unset", "none", "chat-tab active", "chat-tab", "stats")

\* the other view than the one active before
switch_tabs_Toggle(triggered, active_tab) ==
    IF active_tab = "stats" THEN CommunityView ELSE StatsView

\* switch_tabs(stats_clicks, community_clicks, active_tab); triggered is the
\* id of the triggering button, "" when nothing triggered the call
switch_tabs(triggered, active_tab) ==
    IF triggered = "" THEN StatsView
    ELSE IF triggered = "stats-tab" THEN StatsView
    ELSE CommunityView

NoUpdateText == [no_update |-> TRUE, value |-> ""]
NoUpdateInt == [no_update |-> TRUE, value |-> 0]
Value(v) == [no_update |-> FALSE, value |-> v]

\* input_value.strip()
Blank(input_value) == input_value \in {"", " "}

\* handle_combined_chat_input past its PreventUpdate
combined_chat_input(input_value, active_tab) ==
    IF active_tab = "stats"
    THEN [left_input |-> Value(input_value), right_input |-> NoUpdateText,
          right_submit |-> NoUpdateInt, right_clicks |-> NoUpdateInt,
          left_loading |-> "block", right_loading |-> "none"]
    ELSE [left_input |-> NoUpdateText, right_input |-> Value(input_value),
          right_submit |-> Value(1), right_clicks |-> Value(1),
          left_loading |-> "none", right_loading |-> "block"]

NoCombined ==
    [left_input |-> NoUpdateText, right_input |-> NoUpdateText,
     right_submit |-> NoUpdateInt, right_clicks |-> NoUpdateInt,
     left_loading |-> "none", right_loading |-> "none"]

TabEvent(button, active_before) == [button |-> button, active_before |-> active_before]

TabIdle ==
    /\ tabs = LayoutView
    /\ tab_clicks = [b \in {"stats-tab", "community-tab"} |-> 0]
    /\ combined = NoCombined
    /\ tab_event = TabEvent("none", "stats")

\* a click on one of the tabs: its n_clicks goes up and switch_tabs runs
SwitchTabs ==
    /\ \E button_id \in {"stats-tab", "community-tab"} :
         /\ tab_clicks[button_id] < MaxTabClicks
         /\ tab_clicks' = [tab_clicks EXCEPT ![button_id] = @ + 1]
         /\ tabs' = switch_tabs(button_id, tabs.active_tab)
         /\ tab_event' = TabEvent(button_id, tabs.active_tab)
    /\ UNCHANGED <<combined, decVars, normVars, cacheVars, viewVars, batchVars,
                   chatVars, concVars>>

\* handle_combined_chat_input(n_clicks, n_submit, input_value, active_tab)
HandleCombinedChatInput ==
    /\ \E input_value \in InputValues :
         IF Blank(input_value)
         THEN UNCHANGED combined
         ELSE combined' = combined_chat_input(input_value, tabs.active_tab)
    /\ UNCHANGED <<tabs, tab_clicks, tab_event, decVars, normVars, cacheVars, viewVars,
                   batchVars, chatVars, concVars>>

TabNext == SwitchTabs \/ HandleCombinedChatInput

(***************************************************************************)
(* Two dashboard processes starting up over one cache directory.  Each     *)
(* runs the module's start-up calls, get_shots_fired_data() and then       *)
(* get_311_data(), step by step; no lock is taken anywhere.  to_parquet    *)
(* writes the file in place: from its first byte to its close the file     *)
(* exists, has a fresh modification time and is incomplete.                *)
(***************************************************************************)
Sessions == {"a", "b"}

Session(at, torn) == [pc |-> at, torn |-> torn]

\* the file a position of a loader works on
PathAt(at) ==
    CASE at \in {"shots_read", "shots_write", "shots_writing"} -> PathShots
      [] at \in {"matched_read", "matched_write", "matched_writing"} -> PathMatched
      [] OTHER -> Path311

\* the table a loader writes to a file
TableFor(path) ==
    CASE path = PathShots -> SampleShots
      [] path = PathMatched -> SampleMatched
      [] OTHER -> Sample311

\* some process is between the first byte and the close of the file
HalfWritten(path) == \E s \in Sessions : <<s, path>> \in writing

ConcIdle ==
    /\ sess = [s \in Sessions |-> Session("off", FALSE)]
    /\ writing = {}

\* the freshness test at the head of a loader, force_refresh being False
CheckFreshness ==
    /\ \E s \in Sessions :
         \/ /\ sess[s].pc = "shots_check"
            /\ sess' = [sess EXCEPT ![s].pc =
                          IF UseCacheShots(FALSE) THEN "shots_read" ELSE "shots_fetch"]
         \/ /\ sess[s].pc = "311_check"
            /\ sess' = [sess EXCEPT ![s].pc =
                          IF UseCache311(FALSE) THEN "311_read" ELSE "311_fetch"]
    /\ UNCHANGED <<writing, cacheVars, decVars, normVars, viewVars, batchVars, chatVars, tabVars>>

\* pd.read_parquet(cache_path); an incomplete file makes it raise
ReadParquet ==
    /\ \E s \in Sessions :
         /\ sess[s].pc \in {"shots_read", "matched_read", "311_read"}
         /\ sess' = [sess EXCEPT ![s] =
                IF HalfWritten(PathAt(sess[s].pc)) THEN Session("failed", TRUE)
                ELSE Session(CASE sess[s].pc = "shots_read" -> "matched_read"
                               [] sess[s].pc = "matched_read" -> "311_check"
                               [] OTHER -> "serving", sess[s].torn)]
    /\ UNCHANGED <<writing, cacheVars, decVars, normVars, viewVars, batchVars, chatVars, tabVars>>

\* the fetches and the processing of a loader, which touch no file
StreamToDataframe ==
    /\ \E s \in Sessions, raised \in BOOLEAN :
         /\ sess[s].pc \in {"shots_fetch", "311_fetch"}
         /\ sess' = [sess EXCEPT ![s].pc =
                IF raised THEN "failed"
                ELSE IF sess[s].pc = "shots_fetch" THEN "shots_write" ELSE "311_write"]
    /\ UNCHANGED <<writing, cacheVars, decVars, normVars, viewVars, batchVars, chatVars, tabVars>>

\* df.to_parquet(cache_path) opens the file for writing
ToParquetOpen ==
    /\ \E s \in Sessions :
         /\ sess[s].pc \in {"shots_write", "matched_write", "311_write"}
         /\ writing' = writing \cup {<<s, PathAt(sess[s].pc)>>}
         /\ files' = [files EXCEPT ![PathAt(sess[s].pc)] = Written(now, <<>>)]
         /\ sess' = [sess EXCEPT ![s].pc =
                CASE sess[s].pc = "shots_write" -> "shots_writing"
                  [] sess[s].pc = "matched_write" -> "matched_writing"
                  [] OTHER -> "311_writing"]
    /\ UNCHANGED <<now, last, paired, raised_in, decVars, normVars, viewVars, batchVars,
                   chatVars, tabVars>>

\* df.to_parquet(cache_path) writes the last byte and closes the file
ToParquetClose ==
    /\ \E s \in Sessions :
         /\ sess[s].pc \in {"shots_writing", "matched_writing", "311_writing"}
         /\ writing' = writing \ {<<s, PathAt(sess[s].pc)>>}
         /\ files' = [files EXCEPT ![PathAt(sess[s].pc)] =
                         Written(now, TableFor(PathAt(sess[s].pc)))]
         /\ sess' = [sess EXCEPT ![s].pc =
                CASE sess[s].pc = "shots_writing" -> "matched_write"
                  [] sess[s].pc = "matched_writing" -> "311_check"
                  [] OTHER -> "serving"]
    /\ UNCHANGED <<now, last, paired, raised_in, decVars, normVars, viewVars, batchVars,
                   chatVars, tabVars>>

\* time passes while the processes run
ConcTick ==
    /\ now + 15 <= 15 * MaxTicks
    /\ now' = now + 15
    /\ UNCHANGED <<files, last, paired, raised_in, sess, writing, decVars, normVars,
                   viewVars, batchVars, chatVars, tabVars>>

ConcNext ==
    \/ CheckFreshness \/ ReadParquet \/ StreamToDataframe
    \/ ToParquetOpen \/ ToParquetClose \/ ConcTick

(***************************************************************************)
(* Specifications                                                          *)
(***************************************************************************)
\* the decoder on every body and status, the rest idle
DecodeInit ==
    /\ status_code \in StatusCodes
    /\ body \in Bodies
    /\ DecIdle
    /\ NormIdle
    /\ CacheIdle
    /\ ViewIdle
    /\ BatchIdle
    /\ ChatIdle
    /\ TabIdle
    /\ ConcIdle

SpecDecode == DecodeInit /\ [][DecodeNext]_vars

\* the normalizer on every small raw table and flag pair, the rest idle
NormInit ==
    /\ df_in \in RawTables(MaxRows)
    /\ loc_flag \in BOOLEAN
    /\ date_flag \in BOOLEAN
    /\ df_out = Ok(<<>>)
    /\ npc = "call"
    /\ status_code = 200
    /\ body = <<>>
    /\ DecIdle
    /\ CacheIdle
    /\ ViewIdle
    /\ BatchIdle
    /\ ChatIdle
    /\ TabIdle
    /\ ConcIdle

SpecNormalize == NormInit /\ [][NormNext]_vars

\* the loaders over an empty cache directory, the rest idle
Init ==
    /\ status_code = 200
    /\ body = <<>>
    /\ DecIdle
    /\ NormIdle
    /\ CacheIdle
    /\ ViewIdle
    /\ BatchIdle
    /\ ChatIdle
    /\ TabIdle
    /\ ConcIdle

Next == CacheNext

Spec == Init /\ [][Next]_vars

\* the callbacks over every small 311 table beside sample shots tables, and
\* over every small shots table beside a sample 311 table
ViewInit ==
    /\ \/ /\ df_311 \in Loaded311(MaxRecs)
          /\ df_shots = SampleShots
          /\ df_hom_shot_matched = SampleMatched
       \/ /\ df_311 = Sample311
          /\ df_shots \in LoadedShots(MaxRecs)
          /\ df_hom_shot_matched = <<>>
    /\ cb = NoCallback
    /\ status_code = 200
    /\ body = <<>>
    /\ DecIdle
    /\ NormIdle
    /\ CacheIdle
    /\ BatchIdle
    /\ ChatIdle
    /\ TabIdle
    /\ ConcIdle

SpecViews == ViewInit /\ [][ViewNext]_vars

\* one resolve of every id list up to MaxIds ids, the rest idle
BatchInit ==
    /\ event_ids \in {EventIds(n) : n \in 0..MaxIds}
    /\ id_list = <<>>
    /\ batch_i = 0
    /\ sent = <<>>
    /\ answers = <<>>
    /\ all_dfs = <<>>
    /\ bpc = "call"
    /\ resolved = Resolved("none", <<>>, NoCounts)
    /\ status_code = 200
    /\ body = <<>>
    /\ DecIdle
    /\ NormIdle
    /\ CacheIdle
    /\ ViewIdle
    /\ ChatIdle
    /\ TabIdle
    /\ ConcIdle

SpecBatch == BatchInit /\ [][BatchNext]_vars

\* the chat callbacks in every order, the button's count starting at None or
\* at the 0 of the layout, the rest idle
ChatInit ==
    /\ chat_messages = <<>>
    /\ chat_messages_right = <<>>
    /\ refresh_clicks \in {NoneClicks, Clicks(0)}
    /\ chat_event = ChatEvent("none", "none", FALSE)
    /\ status_code = 200
    /\ body = <<>>
    /\ DecIdle
    /\ NormIdle
    /\ CacheIdle
    /\ ViewIdle
    /\ BatchIdle
    /\ TabIdle
    /\ ConcIdle

SpecChat == ChatInit /\ [][ChatNext]_vars

\* the page as laid out, then clicks on the tabs and messages sent from the
\* combined input in every order
TabInit ==
    /\ TabIdle
    /\ status_code = 200
    /\ body = <<>>
    /\ DecIdle
    /\ NormIdle
    /\ CacheIdle
    /\ ViewIdle
    /\ BatchIdle
    /\ ChatIdle
    /\ ConcIdle

SpecTabs == TabInit /\ [][TabNext]_vars

\* two processes at the head of their start-up calls over an empty cache
\* directory, the rest idle
ConcInit ==
    /\ sess = [s \in Sessions |-> Session("shots_check", FALSE)]
    /\ writing = {}
    /\ status_code = 200
    /\ body = <<>>
    /\ DecIdle
    /\ NormIdle
    /\ CacheIdle
    /\ ViewIdle
    /\ BatchIdle
    /\ ChatIdle
    /\ TabIdle

SpecConcurrent == ConcInit /\ [][ConcNext]_vars

(***************************************************************************)
(* Properties of stream_to_dataframe (SpecDecode)                          *)
(***************************************************************************)
Returned == pc = "done" /\ status_code = 200

\* the scan of the whole body delivered as one chunk
OneChunk(b) == IF b = <<>> THEN ScanInit ELSE ProcessChunk(ScanInit, b)
\* what the decoder returns for a body delivered as one chunk
WholeResult(b) == ParseOrRepair(OneChunk(b).json_data)

\* C1: for every body '[\n' e1 ',\n' ... ',\n' en (n >= 1) that lacks the
\* closing '\n]', the decoder returns a table whose rows are exactly e1..en, in
\* order, the same rows as for the well-formed body ending in '\n]'.
C1_TruncatedSameRows ==
    \A es \in ElemLists :
        (Returned /\ es # <<>> /\ body = Framed(es, FALSE))
            => /\ result.kind = "table"
               /\ result.rows = WholeResult(Framed(es, TRUE)).rows
               /\ Len(result.rows) = Len(es)

\* C2: decoding an empty result (body '', '[]' or '[\n]' with status 200)
\* yields a table with zero rows and never a raised error, for every chunking.
EmptyBodies == {<<>>, <<"[", "]">>, <<"[", LF, "]">>}
C2_EmptyIsEmptyTable ==
    (Returned /\ body \in EmptyBodies) => (result.kind = "table" /\ result.rows = <<>>)

\* C3 as claimed: for every body text, the JSON text assembled at end of stream
\* is the same for every chunking (the same as for the body in one chunk).
C3_AnyBodyChunkIndependent ==
    (pc = "done" /\ status_code = 200) => json_data = OneChunk(body).json_data

\* C3 amended: for every well-framed body ('[\n' e1 ',\n' ... en, with or
\* without the closing '\n]', elements JSON values without a newline) and every
\* truncation of one, the JSON text assembled at end of stream is the same for
\* every chunking.
C3_FramedChunkIndependent ==
    (pc = "done" /\ status_code = 200 /\ body \in FramedPrefixes)
        => json_data = OneChunk(body).json_data

\* a closed framed body of two elements, delivered with a chunk boundary
\* inside a delimiter, decoded to its two rows
C3_Witness ==
    /\ pc = "done" /\ status_code = 200 /\ split
    /\ body = Framed(<<(<<"1", "2">>), (<<"[", "1", ",", "2", "]">>)>>, TRUE)
    /\ json_data = <<"[", "1", "2", ",", "[", "1", ",", "2", "]", "]">>
    /\ result.kind = "table" /\ Len(result.rows) = 2

\* C4: with a status other than 200 the decoder raises an error carrying the
\* status code and the body text, before any chunk is read, buffered or
\* parsed; it never returns a table.
C4_Non200Raises ==
    ~(status_code = 200)
        => /\ pc # "stream"
           /\ pos = 0 /\ buffer = <<>> /\ json_data = <<>> /\ ~in_array
           /\ (pc = "done" => result = Raised("Error", status_code, body, 0))

C4_Witness ==
    /\ pc = "done" /\ status_code = 404 /\ Len(body) = MaxLen
    /\ result.kind = "raise" /\ result.status = 404 /\ result.text = body

\* C5: when the parse of the assembled text fails and the parse of the
\* repaired text fails too, the decoder raises the error of the first parse
\* (not the repair's, not an empty table); the repair is attempted at most once.
C5_OriginalErrorSurfaces ==
    Returned =>
        /\ result.repairs <= 1
        /\ (~ReadJson(json_data).ok /\ ~ReadJson(Repair(json_data)).ok)
               => (result.kind = "raise" /\ result.msg = ReadJson(json_data).msg)

\* the repair was attempted, failed, and failed with another message
C5_Witness ==
    /\ Returned
    /\ result.kind = "raise" /\ result.repairs = 1
    /\ ReadJson(Repair(json_data)).msg # ReadJson(json_data).msg

(***************************************************************************)
(* Properties of process_dataframe (SpecNormalize)                         *)
(***************************************************************************)
Ids(rows) == [i \in 1..Len(rows) |-> rows[i].id]

\* a raw row whose coordinates are numbers strictly inside the box
StrictlyInside(r) ==
    LET la == ToNumeric(r.latitude)
        lo == ToNumeric(r.longitude)
    IN /\ la.t = "num" /\ 40 < la.v /\ la.v < 43
       /\ lo.t = "num" /\ 0 - 72 < lo.v /\ lo.v < 0 - 70

\* C6: with location_columns=True process_dataframe keeps exactly the rows
\* with 40 < latitude < 43 and -72 < longitude < -70, in the original order;
\* rows on or outside the boundary and rows whose coordinates are not numbers
\* are dropped.
C6_BoxFilter ==
    (npc = "returned" /\ loc_flag /\ df_in # <<>>)
        => /\ ~df_out.raised
           /\ Ids(df_out.rows) = Ids(SelectSeq(df_in, StrictlyInside))
           /\ \A i \in 1..Len(df_out.rows) :
                /\ df_out.rows[i].latitude = Num(41)
                /\ df_out.rows[i].longitude = Num(0 - 71)

\* one row kept, one boundary row dropped
C6_Witness ==
    /\ npc = "returned" /\ loc_flag /\ Len(df_in) = 2
    /\ df_in[1].latitude = Str("43") /\ df_in[2].latitude = Str("41")
    /\ Ids(df_out.rows) = <<2>>

\* C7: process_dataframe raises for no table that has rows and drops no row
\* for its date: an unparseable date becomes a null date with a null month and
\* the row stays, until the caller's required-column drop removes it; with
\* location_columns=False the output has exactly the input rows.
C7_BadDatesKept ==
    /\ (npc = "returned" /\ df_in # <<>>)
          => /\ ~df_out.raised
             /\ Ids(df_out.rows) =
                  (IF loc_flag THEN Ids(SelectSeq(df_in, StrictlyInside)) ELSE Ids(df_in))
             /\ date_flag =>
                  \A i \in 1..Len(df_out.rows) :
                     LET r == df_out.rows[i]
                     IN IF df_in[r.id].date = Str("bad")
                        THEN IsNull(r.date) /\ IsNull(r.month)
                        ELSE r.date = Date(20241215) /\ r.month = Date(20241201)
    /\ (npc = "dropped")
          => /\ \A i \in 1..Len(df_out.rows) : ~IsNull(df_out.rows[i].date)
             /\ Ids(df_out.rows) =
                  Ids(SelectSeq(df_in, LAMBDA r : StrictlyInside(r) /\ r.date # Str("bad")))

\* a row with an unparseable date is still in the returned table
C7_Witness ==
    /\ npc = "returned" /\ date_flag /\ ~loc_flag
    /\ Len(df_in) = 2 /\ Len(df_out.rows) = 2
    /\ df_in[2].date = Str("bad") /\ df_in[2].latitude = Str("abc")
    /\ IsNull(df_out.rows[2].date) /\ IsNull(df_out.rows[2].month)

(***************************************************************************)
(* Properties of the cache loaders (Spec)                                  *)
(***************************************************************************)
ValidRecord(r) ==
    /\ r.latitude.t = "num" /\ 40 < r.latitude.v /\ r.latitude.v < 43
    /\ r.longitude.t = "num" /\ 0 - 72 < r.longitude.v /\ r.longitude.v < 0 - 70
    /\ r.date.t = "date"

ValidTable(rows) == \A i \in 1..Len(rows) : ValidRecord(rows[i])

\* C8: every table returned by get_311_data and both tables returned by
\* get_shots_fired_data, fetched or read from the cache, hold only valid
\* records: coordinates non-null and strictly inside the box, date non-null,
\* and category non-null for the 311 table.
C8_ReturnedTablesValid ==
    (last.kind \in {"cache", "fetched"})
        => /\ \A k \in 1..Len(last.tables) : ValidTable(last.tables[k])
           /\ (last.fn = "311")
                 => \A i \in 1..Len(last.tables[1]) : last.tables[1][i].category.t = "str"

\* a table served from the cache whose first fetched row had been dropped
C8_Witness ==
    /\ last.fn = "311" /\ last.kind = "cache"
    /\ Len(last.tables[1]) = 1 /\ last.tables[1][1].id = 2

\* a step of the loader fn: the clock stands still and the call is recorded
LoaderStep(fn) == now' = now /\ last'.fn = fn

\* C9: a call of get_311_data without force_refresh that finds the cache file
\* at most 30 minutes old makes no network fetch and returns the table of the
\* file; the call that wrote the file made exactly one fetch, so the two calls
\* together make exactly one.
C9_SecondCallUsesCache ==
    [][ /\ (LoaderStep("311") /\ ~last'.force /\ files[Path311].exists
              /\ now - files[Path311].mtime <= 30)
           => /\ last'.kind = "cache" /\ last'.fetched = 0
              /\ last'.tables = <<files[Path311].data>>
              /\ files' = files
        /\ (LoaderStep("311") /\ last'.kind = "fetched")
           => /\ last'.fetched = 1
              /\ files'[Path311] = Written(now, last'.tables[1]) ]_vars

\* a cache hit exactly 30 minutes after the file was written
C9_Witness ==
    /\ last.fn = "311" /\ last.kind = "cache" /\ ~last.force /\ last.fetched = 0
    /\ now = files[Path311].mtime + 30
    /\ last.tables = <<files[Path311].data>>

\* C10 as claimed: a forced refresh always fetches and rewrites the cache.
C10_ForcedAlwaysRewrites ==
    last.force => (last.kind = "fetched" /\ last.fetched >= 1)

\* C10 amended: a forced refresh always goes to the network and never returns
\* the cached tables, whatever the cache files hold; when it returns, every
\* cache file of the loader has been rewritten with the tables it returns; when
\* a fetch, the processing or a write raises, the call raises instead.
C10_ForcedBypassesCache ==
    [][ (now' = now /\ last'.force /\ last'.fn \in {"311", "shots"})
           => /\ last'.kind # "cache"
              /\ last'.fetched >= 1
              /\ (last'.kind = "fetched" /\ last'.fn = "311")
                   => files'[Path311] = Written(now, last'.tables[1])
              /\ (last'.kind = "fetched" /\ last'.fn = "shots")
                   => /\ last'.fetched = 2
                      /\ files'[PathShots] = Written(now, last'.tables[1])
                      /\ files'[PathMatched] = Written(now, last'.tables[2]) ]_vars

\* a forced refresh returned fetched tables and rewrote a file written earlier
C10_Witness ==
    /\ last.force /\ last.fn = "shots" /\ last.kind = "fetched"
    /\ now = 15
    /\ files[PathShots] = Written(15, last.tables[1])
    /\ files[PathMatched] = Written(15, last.tables[2])
    /\ files[Path311].exists /\ files[Path311].mtime = 0

(***************************************************************************)
(* Properties of get_shots_fired_data (Spec)                               *)
(***************************************************************************)
\* C11: the pair get_shots_fired_data returns comes from one fetch round:
\* a pair read from the cache was written by one call, whatever loads,
\* forced refreshes, failed fetches and failed cache writes came before
C11_PairFromOneRound ==
    (last.fn = "shots" /\ last.kind = "cache") => paired

(***************************************************************************)
(* Properties of the map callbacks (SpecViews)                             *)
(***************************************************************************)
\* the positions of the 311 rows dated in the month the callback was asked for
AskedMonthRows ==
    LET ym == date_string_to_year_month(cb.date)
    IN {j \in 1..Len(df_311) : df_311[j].date.v \div 100 = ym[1] * 100 + ym[2]}

RECURSIVE SumOfValues(_)
SumOfValues(features) ==
    IF features = <<>> THEN 0
    ELSE features[1].properties.value + SumOfValues(Tail(features))

NoDuplicates(seq) == \A j, k \in 1..Len(seq) : j # k => seq[j] # seq[k]

\* C12: for a month with at least one 311 record, the hex features of
\* update_map_data have counts that sum to the number of records of the
\* month, each count is the length of the feature's id list, the id lists are
\* duplicate-free and pairwise disjoint, together they are exactly the ids of
\* the month's records, and every id is listed under the cell of its record
C12_HexPartition ==
    (cb.fn = "update_map_data" /\ AskedMonthRows # {}) =>
        LET features == cb.ret[1].features
            IdsOf(j) == features[j].properties.ids
        IN /\ SumOfValues(features) = Cardinality(AskedMonthRows)
           /\ \A j \in 1..Len(features) :
                 /\ features[j].properties.value = Len(IdsOf(j))
                 /\ NoDuplicates(IdsOf(j))
           /\ \A j, k \in 1..Len(features) :
                 j # k => /\ Range(IdsOf(j)) \cap Range(IdsOf(k)) = {}
                          /\ features[j].properties.hex_id # features[k].properties.hex_id
           /\ UNION {Range(IdsOf(j)) : j \in 1..Len(features)}
                 = {ToStr(df_311[r].id) : r \in AskedMonthRows}
           /\ \A r \in AskedMonthRows : \E j \in 1..Len(features) :
                 /\ ToStr(df_311[r].id) \in Range(IdsOf(j))
                 /\ features[j].properties.hex_id
                      = latlng_to_cell(df_311[r].latitude.v, df_311[r].longitude.v, 10)

\* update_map_data returned two cells, one of them holding two records
C12_Witness ==
    /\ cb.fn = "update_map_data"
    /\ Len(cb.ret[1].features) = 2
    /\ \E j \in 1..2 : cb.ret[1].features[j].properties.value = 2

HexProperties == {"hex_id", "value", "count", "lat", "lon"}

\* C13: every hex feature of update_map_data and of get_all_hexbin_data
\* carries hex_id, value, count and the centroid, and the features of
\* update_map_data carry the ids of the records they contain
C13_FeaturesCarryAll ==
    /\ cb.fn = "update_map_data" =>
          \A j \in 1..Len(cb.ret[1].features) :
              HexProperties \cup {"ids"} \subseteq DOMAIN cb.ret[1].features[j].properties
    /\ cb.fn = "get_all_hexbin_data" =>
          \A j \in 1..Len(cb.ret.features) :
              HexProperties \subseteq DOMAIN cb.ret.features[j].properties

\* the features get_all_hexbin_data returned, none before it ran
AllFeatures == IF cb.fn = "get_all_hexbin_data" THEN cb.ret.features ELSE <<>>
CountOf(j) == AllFeatures[j].properties.count
ValueOf(j) == AllFeatures[j].properties.value
MaxCount == Max({CountOf(j) : j \in 1..Len(AllFeatures)})
MinCount == 0 - Max({0 - CountOf(j) : j \in 1..Len(AllFeatures)})

\* C14: in all-time mode the count of a feature is the number of records in
\* its cell and its value is 1 + 9*count/maxCount with maxCount the largest
\* count: 10 for a feature with the largest count, 1 + 9/maxCount for a
\* feature with count 1, and between 1 and 10 for every feature
C14_NormalizedValue ==
    \A j \in 1..Len(AllFeatures) :
        /\ CountOf(j) = Cardinality({r \in 1..Len(df_311) :
                latlng_to_cell(df_311[r].latitude.v, df_311[r].longitude.v, 10)
                    = AllFeatures[j].properties.hex_id})
        /\ ValueOf(j).den > 0
        /\ ValueOf(j).num * MaxCount = (MaxCount + 9 * CountOf(j)) * ValueOf(j).den
        /\ CountOf(j) = MaxCount => ValueOf(j).num = 10 * ValueOf(j).den
        /\ CountOf(j) = 1 => ValueOf(j).num * MaxCount = (MaxCount + 9) * ValueOf(j).den
        /\ ValueOf(j).den <= ValueOf(j).num
        /\ ValueOf(j).num <= 10 * ValueOf(j).den

\* get_all_hexbin_data returned a cell of two records beside a cell of one
C14_Witness ==
    /\ Len(AllFeatures) = 2
    /\ \E j, k \in 1..2 : CountOf(j) = 2 /\ CountOf(k) = 1

\* C15 as stated: the least-populated cell has value 1 and the most-populated
\* cell has value 10
C15_LeastIsOne ==
    \A j \in 1..Len(AllFeatures) :
        /\ CountOf(j) = MinCount => ValueOf(j).num = ValueOf(j).den
        /\ CountOf(j) = MaxCount => ValueOf(j).num = 10 * ValueOf(j).den

\* C15 as amended: the most-populated cell has value 10 and the
\* least-populated cell has value 1 + 9*minCount/maxCount, which is above 1,
\* and is 10 exactly when all cells hold equally many records
C15_LeastAboveOne ==
    \A j \in 1..Len(AllFeatures) :
        /\ CountOf(j) = MaxCount => ValueOf(j).num = 10 * ValueOf(j).den
        /\ CountOf(j) = MinCount =>
              /\ ValueOf(j).num * MaxCount = (MaxCount + 9 * MinCount) * ValueOf(j).den
              /\ ValueOf(j).num > ValueOf(j).den
              /\ (ValueOf(j).num = 10 * ValueOf(j).den) <=> (MinCount = MaxCount)

\* get_all_hexbin_data returned a least-populated cell with fewer records
\* than the most-populated one
C15_Witness ==
    /\ Len(AllFeatures) = 2
    /\ MinCount < MaxCount
    /\ \E j \in 1..2 : CountOf(j) = MinCount /\ ValueOf(j).num < 10 * ValueOf(j).den

\* C16: get_all_hexbin_data never divides by zero: on a table without
\* records it returns the empty feature collection, and on any other table
\* it returns features whose divisor is at least 1
C16_NoDivisionByZero ==
    cb.fn = "get_all_hexbin_data" =>
        /\ cb.ret.type = "FeatureCollection"
        /\ df_311 = <<>> => cb.ret.features = <<>>
        /\ df_311 # <<>> =>
              /\ cb.ret.features # <<>>
              /\ \A j \in 1..Len(cb.ret.features) : ValueOf(j).den >= 1

\* get_all_hexbin_data ran on a table without records
C16_Witness ==
    /\ cb.fn = "get_all_hexbin_data"
    /\ df_311 = <<>>
    /\ cb.ret = FeatureCollection(<<>>)

(***************************************************************************)
(* Properties of the summary callbacks (SpecViews)                         *)
(***************************************************************************)
\* the ids the selection restricts to; no list is the empty list
SelectedIds == IF "selected_ids" \in DOMAIN cb.selected THEN cb.selected.selected_ids ELSE <<>>
SelectedHexbins ==
    IF "selected_hexbins" \in DOMAIN cb.selected THEN cb.selected.selected_hexbins ELSE <<>>

\* the positions of the 311 rows update_category_counts is to count
RetainedRows ==
    {j \in AskedMonthRows : SelectedIds = <<>> \/ ToStr(df_311[j].id) \in Range(SelectedIds)}

RECURSIVE SumOver(_, _)
SumOver(f, S) ==
    IF S = {} THEN 0 ELSE LET x == CHOOSE y \in S : TRUE IN f[x] + SumOver(f, S \ {x})

\* C17: update_category_counts maps every category of the retained rows (the
\* rows of the asked month, restricted to the selected ids when that list is
\* not empty) to its number of retained rows; the counts sum to the number
\* of retained rows and without retained rows the mapping is empty
C17_CategoryCounts ==
    cb.fn = "update_category_counts" =>
        /\ DOMAIN cb.ret = {df_311[j].category.s : j \in RetainedRows}
        /\ \A c \in DOMAIN cb.ret :
              cb.ret[c] = Cardinality({j \in RetainedRows : df_311[j].category.s = c})
        /\ SumOver(cb.ret, DOMAIN cb.ret) = Cardinality(RetainedRows)
        /\ RetainedRows = {} => DOMAIN cb.ret = {}

\* update_category_counts counted two rows of one category under a selection
\* that leaves out a row of the month
C17_Witness ==
    /\ cb.fn = "update_category_counts"
    /\ SelectedIds # <<>>
    /\ RetainedRows # AskedMonthRows
    /\ \E c \in DOMAIN cb.ret : cb.ret[c] = 2

\* the positions of the shots rows dated in the asked month
AskedMonthShots ==
    LET ym == date_string_to_year_month(cb.date)
    IN {j \in 1..Len(df_shots) : df_shots[j].date.v \div 100 = ym[1] * 100 + ym[2]}

\* C18: update_shot_count returns the number of shots rows of the asked month
\* whose cell at resolution 10 is in selected_hexbins when that list is not
\* empty, and the number of shots rows of the month when it is empty or
\* missing; the result lies between 0 and the month's total
C18_ShotCount ==
    cb.fn = "update_shot_count" =>
        /\ SelectedHexbins = <<>> => cb.ret = Cardinality(AskedMonthShots)
        /\ SelectedHexbins # <<>> =>
              cb.ret = Cardinality({j \in AskedMonthShots :
                  latlng_to_cell(df_shots[j].latitude.v, df_shots[j].longitude.v, 10)
                      \in Range(SelectedHexbins)})
        /\ cb.ret >= 0
        /\ cb.ret <= Cardinality(AskedMonthShots)

\* update_shot_count counted some but not all shots of the month
C18_Witness ==
    /\ cb.fn = "update_shot_count"
    /\ SelectedHexbins # <<>>
    /\ cb.ret > 0
    /\ cb.ret < Cardinality(AskedMonthShots)

(***************************************************************************)
(* Properties of the batch resolve (SpecBatch)                             *)
(***************************************************************************)
RECURSIVE Flatten(_)
Flatten(lists) == IF lists = <<>> THEN <<>> ELSE lists[1] \o Flatten(Tail(lists))

LoopDone == bpc \in {"returned", "resolved"} /\ event_ids # <<>>

\* C19: a resolve of n ids issues ceil(n/50) requests, every one with at most
\* 50 ids and every one but the last with exactly 50, and the batches in the
\* order issued concatenate to the id list: each id is sent once; 120 ids go
\* out as 50, 50 and 20
C19_Batches ==
    LoopDone =>
        /\ Len(sent) * 50 >= Len(event_ids)
        /\ (Len(sent) - 1) * 50 < Len(event_ids)
        /\ \A j \in 1..Len(sent) : Len(sent[j]) <= 50 /\ Len(sent[j]) >= 1
        /\ \A j \in 1..(Len(sent) - 1) : Len(sent[j]) = 50
        /\ Flatten(sent) = event_ids
        /\ Len(event_ids) = 120 =>
              Len(sent) = 3 /\ Len(sent[1]) = 50 /\ Len(sent[2]) = 50 /\ Len(sent[3]) = 20

\* a resolve of 120 ids is over
C19_Witness == LoopDone /\ Len(event_ids) = 120 /\ Len(sent) = 3

\* every batch of the list was requested, whatever the earlier ones got
BatchesAllIssued ==
    LoopDone => Len(answers) = Len(sent) /\ Flatten(sent) = event_ids

\* the rows of the batches that were answered
SucceededRows ==
    Flatten([j \in 1..Len(answers) |-> IF answers[j].raised THEN <<>> ELSE answers[j].df.rows])

\* the columns of the batches that were answered
SucceededCols ==
    LET ok == {j \in 1..Len(answers) : ~answers[j].raised}
    IN IF ok = {} THEN <<>> ELSE answers[CHOOSE j \in ok : TRUE].df.cols

\* the text returned is empty when no batch was answered, the sum per issue
\* over the answered batches when they carry reported_issue and total, and
\* their rows one after the other when they carry other columns
AggregateOfSucceeded ==
    LoopDone =>
        LET labels == {SucceededRows[j][1] : j \in 1..Len(SucceededRows)}
            csv == resolved.csv_str
        IN IF \A j \in 1..Len(answers) : answers[j].raised THEN csv = <<>>
           ELSE IF SucceededCols = <<"reported_issue", "total">>
           THEN /\ csv[1] = <<"reported_issue", "total">>
                /\ Len(csv) = 1 + Cardinality(labels)
                /\ Range(Tail(csv)) = {<<l, ToStr(SumTotals(SucceededRows, l))>> : l \in labels}
           ELSE /\ csv[1] = SucceededCols
                /\ Tail(csv) = [j \in 1..Len(SucceededRows) |->
                                  <<SucceededRows[j][1], ToStr(SucceededRows[j][2])>>]

\* compute_area_category_counts returned a mapping
ResolveDidNotRaise == bpc = "resolved" => resolved.state = "returned"

\* C20: for every pattern of failing batches the resolve requests every
\* batch, get_select_311_data returns the aggregate of exactly the batches
\* that were answered, and compute_area_category_counts returns without
\* raising, also when every batch fails
C20_FailuresSkipped ==
    /\ BatchesAllIssued
    /\ AggregateOfSucceeded
    /\ ResolveDidNotRaise

\* compute_area_category_counts returned the mapping of a resolve whose
\* batches were not all failing
CountsReturned == bpc = "resolved" /\ resolved.state = "returned" /\ event_ids # <<>>

SucceededLabels == {SucceededRows[j][1] : j \in 1..Len(SucceededRows)}

\* the value of the last answered row with the label
LastValue(l) ==
    SucceededRows[Max({j \in 1..Len(SucceededRows) : SucceededRows[j][1] = l})][2]

\* C21 as stated: whatever the columns of the batches,
\* compute_area_category_counts maps every label to the sum of its values
\* over the answered batches
C21_EveryLabelAggregated ==
    CountsReturned =>
        resolved.counts = [l \in SucceededLabels |-> SumTotals(SucceededRows, l)]

\* C21 as amended: with the columns reported_issue and total the text has one
\* row per distinct label holding the sum of its totals over the answered
\* batches and the mapping takes every label to that sum; with other columns
\* the first two are label and value, nothing is summed, and the mapping
\* takes every label to the value of its last row
C21_SummedOrPositional ==
    CountsReturned =>
        IF SucceededCols = <<"reported_issue", "total">>
        THEN /\ Len(resolved.csv_str) = 1 + Cardinality(SucceededLabels)
             /\ \A l \in SucceededLabels :
                   <<l, ToStr(SumTotals(SucceededRows, l))>> \in Range(Tail(resolved.csv_str))
             /\ resolved.counts = [l \in SucceededLabels |-> SumTotals(SucceededRows, l)]
        ELSE /\ Len(resolved.csv_str) = 1 + Len(SucceededRows)
             /\ resolved.counts = [l \in SucceededLabels |-> LastValue(l)]

\* a label summed over two answered batches of reported_issue and total
C21_Witness ==
    /\ CountsReturned
    /\ SucceededCols = <<"reported_issue", "total">>
    /\ Cardinality({j \in 1..Len(answers) : ~answers[j].raised}) >= 2
    /\ resolved.counts["Trash"] = 3

(***************************************************************************)
(* Properties of the chat callbacks (SpecChat)                             *)
(***************************************************************************)
ChatCallbacks ==
    {"handle_chat_response", "handle_chat_response_right", "handle_tell_me_prompt",
     "handle_initial_prompts"}

\* the panels a callback writes
WritesStats(fn) == fn \in {"handle_chat_response", "handle_tell_me_prompt", "handle_initial_prompts"}
WritesCommunity(fn) == fn \in {"handle_chat_response_right", "handle_initial_prompts"}

\* C22: a chat callback that met a backend failure (the chat endpoint
\* failing or answering non-200, or a data query for the prompt failing)
\* completes normally; a failure of the chat endpoint shows as an inline
\* error text in the bot message it appends
C22_ChatNeverRaises ==
    (chat_event.fn \in ChatCallbacks /\ chat_event.failed) =>
        chat_event.outcome = "returned"

\* messages is old with exactly one bot message added at the end
ExtendedByOneBotMessage(old, messages) ==
    /\ Len(messages) = Len(old) + 1
    /\ SubSeq(messages, 1, Len(old)) = old
    /\ messages[Len(messages)].className = "bot-message"

\* n_clicks went up by exactly 1, None becoming 0
RaisedByOne(old, clicks) ==
    /\ ~clicks.none
    /\ clicks.n = IF old.none THEN 0 ELSE old.n + 1

\* the callback of the step is one of the two that append to the stats panel
\* and it was not prevented (PreventUpdate on an empty prompt)
StatsAppendStep ==
    /\ chat_event'.fn \in {"handle_chat_response", "handle_tell_me_prompt"}
    /\ chat_event'.outcome # "no_update"

\* the stats history is replaced only by handle_initial_prompts, which
\* leaves exactly one message in each panel
OnlyInitialPromptsReplace ==
    /\ (\/ Len(chat_messages') < Len(chat_messages)
        \/ SubSeq(chat_messages', 1, Len(chat_messages)) # chat_messages)
          => chat_event'.fn = "handle_initial_prompts"
    /\ (chat_event'.fn = "handle_initial_prompts" /\ chat_event'.outcome = "returned")
          => /\ Len(chat_messages') = 1
             /\ Len(chat_messages_right') = 1
             /\ RaisedByOne(refresh_clicks, refresh_clicks')

\* C25: every handle_chat_response and handle_tell_me_prompt callback
\* returns the stats history it received extended by exactly one bot message
\* at the end and raises refresh-chat-btn n_clicks by exactly 1 (None becomes
\* 0); only handle_initial_prompts replaces the history, leaving exactly one
\* message in each panel
C25_AppendOnly ==
    [][/\ StatsAppendStep
          => /\ ExtendedByOneBotMessage(chat_messages, chat_messages')
             /\ RaisedByOne(refresh_clicks, refresh_clicks')
       /\ OnlyInitialPromptsReplace]_vars

\* the part of C25 about the callbacks that return: they append one bot
\* message and raise n_clicks by 1, and a callback that does not return
\* leaves the history and the count as they were
AppendOnlyWhenReturned ==
    [][/\ (StatsAppendStep /\ chat_event'.outcome = "returned")
          => /\ ExtendedByOneBotMessage(chat_messages, chat_messages')
             /\ RaisedByOne(refresh_clicks, refresh_clicks')
       /\ chat_event'.outcome # "returned"
          => UNCHANGED <<chat_messages, chat_messages_right, refresh_clicks>>
       /\ OnlyInitialPromptsReplace]_vars

(***************************************************************************)
(* Properties of the tabs (SpecTabs)                                       *)
(***************************************************************************)
Displayed(style) == style # "none"
Active(className) == className = "chat-tab active"

\* the view the last click asked for; the layout's stats view before any click
ViewClickedLast ==
    IF tab_event.button = "community-tab" THEN "community" ELSE "stats"

\* C26: after any sequence of clicks on the two tabs exactly one chat
\* container is displayed, exactly one tab has the active class, and
\* active-tab-store names the displayed one; which one it is depends only on
\* the tab clicked last, not on the tab active before
C26_TabsConsistent ==
    /\ Displayed(tabs.stats_style) # Displayed(tabs.community_style)
    /\ Active(tabs.stats_class) # Active(tabs.community_class)
    /\ tabs.active_tab \in {"stats", "community"}
    /\ (tabs.active_tab = "stats") = Displayed(tabs.stats_style)
    /\ (tabs.active_tab = "stats") = Active(tabs.stats_class)
    /\ tabs.active_tab = ViewClickedLast

\* the community tab was clicked while the community view was already active,
\* after clicks on both tabs
C26_Witness ==
    /\ tab_event = TabEvent("community-tab", "community")
    /\ tab_clicks["stats-tab"] > 0
    /\ tabs = CommunityView

(***************************************************************************)
(* Properties of the loaders when a fetch fails (Spec)                     *)
(***************************************************************************)
\* the step is a call of a loader in which stream_to_dataframe raised
FailedFetchStep ==
    /\ now' = now
    /\ last'.fn \in {"311", "shots"}
    /\ raised_in' = "stream_to_dataframe"

\* the step is the first call of the same loader after one in which
\* stream_to_dataframe raised
LoadAfterFailedFetch ==
    /\ raised_in = "stream_to_dataframe"
    /\ now' = now
    /\ last'.fn = last.fn

\* a failed fetch raises to the caller and leaves every cache file as it was:
\* none created, rewritten or touched
FailedFetchKeepsCache ==
    FailedFetchStep => (last'.kind = "raise" /\ files' = files)

\* C24: when stream_to_dataframe raises inside get_311_data or
\* get_shots_fired_data (the second fetch of the latter included) the error
\* propagates and no cache file is created, rewritten or has its modification
\* time refreshed, so the next load of that loader fetches again
C24_FailedFetchThenRefetch ==
    [][/\ FailedFetchKeepsCache
       /\ LoadAfterFailedFetch => last'.fetched >= 1]_vars

\* C24 amended: the failed fetch raises and leaves every cache file as it
\* was; the next load of that loader fetches again when the failed call was
\* made without force_refresh, and after a failed forced refresh it is
\* served from the untouched files exactly when they are still fresh
C24_FailedFetchKeepsCache ==
    [][/\ FailedFetchKeepsCache
       /\ (LoadAfterFailedFetch /\ ~last.force) => last'.fetched >= 1
       /\ (LoadAfterFailedFetch /\ last.force /\ last'.fn = "311")
            => (last'.kind = "cache") = UseCache311(last'.force)
       /\ (LoadAfterFailedFetch /\ last.force /\ last'.fn = "shots")
            => (last'.kind = "cache") = UseCacheShots(last'.force)]_vars

\* the second fetch of get_shots_fired_data failed over cache files written
\* earlier, which are still as they were written
C24_Witness ==
    /\ raised_in = "stream_to_dataframe"
    /\ last.fn = "shots" /\ last.kind = "raise" /\ last.fetched = 2
    /\ files[PathShots].exists /\ files[PathShots].mtime < now
    /\ files[PathMatched] = Written(files[PathShots].mtime, files[PathMatched].data)

(***************************************************************************)
(* Properties of two processes loading at once (SpecConcurrent)            *)
(***************************************************************************)
\* C23: with two sessions running the cache loaders at once and no lock
\* taken, no loader reads a cache file another loader is in the middle of
\* writing: a reader that passed the freshness check reads a completely
\* written file
C23_NoHalfWrittenRead ==
    \A s \in Sessions : ~sess[s].torn

====
